---- MODULE Spec2Model ----
(***************************************************************************)
(* lv: an interactive log viewer.  The module models                       *)
(*   - the Line Batcher goroutine (NewStreamer) and the consumer's         *)
(*     WaitForStream command,                                              *)
(*   - the ui.Model aggregate and its Update / View handlers               *)
(*     (applyFilters, appendIncomingLines, resolvePos, the layout cache).  *)
(* A line is a sequence of characters.  A character is a one-character     *)
(* string; a timestamp and an ANSI control sequence are kept as one atomic *)
(* element (a longer string), the bookmark glyph likewise.                 *)
(***************************************************************************)
EXTENDS Integers, Sequences, FiniteSets, TLC

VARIABLES
    m,          \* the ui.Model value held by the bubbletea runtime
    hist,       \* history: what the run has done so far (not program state)
    prod,       \* the NewStreamer goroutine: position, batch, timer
    chan,       \* the Streamer's two unbuffered channels
    rt,         \* the bubbletea runtime: armed WaitForStream, message in flight
    fs,         \* the watched file, its watcher and the WaitForFileChange in flight
    pos         \* the last resolvePos call: its arguments and what it returned

vars == <<m, hist, prod, chan, rt, fs, pos>>

\* A nil *Point, a nil *regexp.Regexp, a nil *time.Time
NoPoint == [nil |-> TRUE]
NoRegex == [valid |-> FALSE]
NoDate == 0

----------------------------------------------------------------------------
(* Bounds of the model.                                                    *)

\* Largest number of lines the raw store is let grow to.
MaxRaw == 3
\* Line-count threshold of the Line Batcher, scaled down (100 in NewStreamer).
BatchLines == 2
\* Largest number of lines the byte source yields.
MaxSource == 4

----------------------------------------------------------------------------
(* Strings as sequences of characters.                                     *)

Str_ERROR == <<"E", "R", "R", "O", "R">>
Str_WARN  == <<"W", "A", "R", "N">>
Str_INFO  == <<"I", "N", "F", "O">>
Str_DEBUG == <<"D", "E", "B", "U", "G">>

\* strings.Contains
Contains(s, sub) ==
    \E i \in 0..(Len(s) - Len(sub)) : SubSeq(s, i + 1, i + Len(sub)) = sub

\* strings.Index: the first position (0-based) of sub in s, -1 when absent
Index(s, sub) ==
    IF Contains(s, sub)
    THEN CHOOSE i \in 0..(Len(s) - Len(sub)) :
            /\ SubSeq(s, i + 1, i + Len(sub)) = sub
            /\ \A j \in 0..(i - 1) : SubSeq(s, j + 1, j + Len(sub)) # sub
    ELSE -1

\* strings.HasPrefix
HasPrefix(s, p) == Len(s) >= Len(p) /\ SubSeq(s, 1, Len(p)) = p

\* strings.ToLower, on the letters the model's lines use
LowerChar(c) ==
    CASE c = "A" -> "a" [] c = "B" -> "b" [] c = "D" -> "d" [] c = "E" -> "e"
      [] c = "F" -> "f" [] c = "G" -> "g" [] c = "I" -> "i" [] c = "N" -> "n"
      [] c = "O" -> "o" [] c = "R" -> "r" [] c = "T" -> "t" [] c = "U" -> "u"
      [] c = "W" -> "w" [] OTHER -> c

ToLower(s) == [i \in 1..Len(s) |-> LowerChar(s[i])]

RECURSIVE Flatten(_)
Flatten(ss) == IF ss = <<>> THEN <<>> ELSE Head(ss) \o Flatten(Tail(ss))

\* The line with its tabs left in
ExpandTabs_Kept(line) == line

\* strings.ReplaceAll(line, "\t", "    ")
ExpandTabs(line) ==
    Flatten([i \in 1..Len(line) |->
                IF line[i] = "\t" THEN <<" ", " ", " ", " ">> ELSE <<line[i]>>])

----------------------------------------------------------------------------
(* Timestamps.  dateRegex is \d{4}-\d{2}-\d{2}[T ]?(\d{2}:\d{2}:\d{2})?; the  *)
(* text it finds is handed to parseDate, whose formats are                 *)
(* "2006-01-02 15:04:05", "2006-01-02T15:04:05", "2006-01-02" and RFC3339. *)
(* A time is an integer: the seconds since 2000-01-00 on a 372-day year.   *)

Digits == {"0", "1", "2", "3", "4", "5", "6", "7", "8", "9"}

DigitValue(c) ==
    CASE c = "0" -> 0 [] c = "1" -> 1 [] c = "2" -> 2 [] c = "3" -> 3
      [] c = "4" -> 4 [] c = "5" -> 5 [] c = "6" -> 6 [] c = "7" -> 7
      [] c = "8" -> 8 [] c = "9" -> 9

\* The characters of s from position i (1-based) have the shape of pattern:
\* "d" stands for a digit, every other character for itself
ShapeAt(s, i, pattern) ==
    /\ i + Len(pattern) - 1 <= Len(s)
    /\ \A k \in 1..Len(pattern) :
          IF pattern[k] = "d" THEN s[i + k - 1] \in Digits
          ELSE s[i + k - 1] = pattern[k]

DateShape == <<"d", "d", "d", "d", "-", "d", "d", "-", "d", "d">>
TimeShape == <<"d", "d", ":", "d", "d", ":", "d", "d">>

Num2(s, i) == 10 * DigitValue(s[i]) + DigitValue(s[i + 1])
Num4(s, i) == 100 * Num2(s, i) + Num2(s, i + 2)

DaysIn(year, month) ==
    IF month \in {4, 6, 9, 11} THEN 30
    ELSE IF month = 2
         THEN IF year % 4 = 0 /\ (year % 100 # 0 \/ year % 400 = 0)
              THEN 29 ELSE 28
         ELSE 31

\* The date at the front of s is a date of the calendar
DateValid(s) ==
    /\ Num2(s, 6) \in 1..12
    /\ Num2(s, 9) \in 1..DaysIn(Num4(s, 1), Num2(s, 6))

\* The clock text from position i is a time of day
ClockValid(s, i) ==
    Num2(s, i) < 24 /\ Num2(s, i + 3) < 60 /\ Num2(s, i + 6) < 60

DateSeconds(s) ==
    (((Num4(s, 1) - 2000) * 372) + (Num2(s, 6) * 31) + Num2(s, 9)) * 86400

ClockSeconds(s, i) == (Num2(s, i) * 3600) + (Num2(s, i + 3) * 60) + Num2(s, i + 6)

\* parseDate: the time of a timestamp text, NoDate when no format parses it
parseDate(s) ==
    IF Len(s) = 10 /\ ShapeAt(s, 1, DateShape) /\ DateValid(s)
    THEN DateSeconds(s)
    ELSE IF /\ Len(s) = 19
            /\ ShapeAt(s, 1, DateShape)
            /\ s[11] \in {" ", "T"}
            /\ ShapeAt(s, 12, TimeShape)
            /\ DateValid(s)
            /\ ClockValid(s, 12)
         THEN DateSeconds(s) + ClockSeconds(s, 12)
         ELSE NoDate

\* dateRegex.FindStringIndex: the leftmost match, each optional part taken
\* when it is there; <<>> when the line has no match
FirstDateAt(line) ==
    CHOOSE k \in 1..Len(line) :
       /\ ShapeAt(line, k, DateShape)
       /\ \A j \in 1..(k - 1) : ~ShapeAt(line, j, DateShape)

\* The length of the optional "[T ]" after the date that starts at i
DateSepLen(line, i) ==
    IF i + 10 <= Len(line) /\ line[i + 10] \in {"T", " "} THEN 1 ELSE 0

\* The length of the optional clock part at position j
DateClockLen(line, j) == IF ShapeAt(line, j, TimeShape) THEN 8 ELSE 0

DateMatch(line, i, sep) ==
    SubSeq(line, i, i + 9 + sep + DateClockLen(line, i + 10 + sep))

FindDate(line) ==
    IF \E i \in 1..Len(line) : ShapeAt(line, i, DateShape)
    THEN DateMatch(line, FirstDateAt(line),
                   DateSepLen(line, FirstDateAt(line)))
    ELSE <<>>

\* extractDate: the first timestamp-shaped substring, parsed; NoDate when
\* there is none or it does not parse
ParseFound(found) == IF found = <<>> THEN NoDate ELSE parseDate(found)

extractDate(line) == ParseFound(FindDate(line))

----------------------------------------------------------------------------
(* Regular expressions.  The patterns of the model are literals, plus "["  *)
(* which regexp.Compile rejects.  A compiled pattern is a record: the      *)
(* literal and whether it matches case-insensitively.                      *)

\* regexp.Compile(pattern) in regex mode
CompileRegex(pattern) ==
    IF \E i \in 1..Len(pattern) : pattern[i] = "["
    THEN NoRegex
    ELSE [valid |-> TRUE, lit |-> pattern, fold |-> FALSE]

\* regexp.Compile("(?i)" + regexp.QuoteMeta(pattern)): always compiles
CompileQuoted(pattern) ==
    [valid |-> TRUE, lit |-> ToLower(pattern), fold |-> TRUE]

\* Regexp.MatchString
MatchString(re, line) ==
    IF re.fold THEN Contains(ToLower(line), re.lit) ELSE Contains(line, re.lit)

----------------------------------------------------------------------------
(* fmt.Sprintf("%d", n)                                                    *)

DigitChar == <<"0", "1", "2", "3", "4", "5", "6", "7", "8", "9">>

RECURSIVE Itoa(_)
Itoa(n) == IF n < 10 THEN <<DigitChar[n + 1]>>
           ELSE Itoa(n \div 10) \o <<DigitChar[(n % 10) + 1]>>

\* The control sequences lipgloss puts around a styled text
SGR_Fold  == "ESC[3;38;5;240m"
SGR_Reset == "ESC[0m"

\* The fold summary line: the Sprintf text, rendered grey and italic
FoldSummary(n) ==
    <<SGR_Fold>>
    \o <<" ", " ", "[", "+", "]", " ">> \o Itoa(n)
    \o <<" ", "l", "i", "n", "e", "s", " ", "f", "o", "l", "d", "e", "d", " ",
         "(", "s", "t", "a", "c", "k", " ", "t", "r", "a", "c", "e", "/",
         "i", "n", "d", "e", "n", "t", "e", "d", " ", "b", "l", "o", "c", "k",
         ")", ".", ".", ".">>
    \o <<SGR_Reset>>

----------------------------------------------------------------------------
(* The View Pipeline: applyFilters.                                        *)

\* The level filter with the ERROR test alone
LevelDropped_ErrorOnly(mm, line) == Contains(line, Str_ERROR) /\ ~mm.showError

\* Stage 1 (level filter): the line is dropped
LevelDropped(mm, line) ==
    \/ Contains(line, Str_ERROR) /\ ~mm.showError
    \/ Contains(line, Str_WARN)  /\ ~mm.showWarn
    \/ Contains(line, Str_INFO)  /\ ~mm.showInfo
    \/ Contains(line, Str_DEBUG) /\ ~mm.showDebug

\* The date test with the bounds themselves outside
DateOutside_Strict(mm, t) ==
    /\ t # NoDate
    /\ \/ mm.startDate # NoDate /\ t <= mm.startDate
       \/ mm.endDate # NoDate /\ t >= mm.endDate

\* Stage 2 (date filter): the line is dropped
DateOutside(mm, t) ==
    /\ t # NoDate
    /\ \/ mm.startDate # NoDate /\ t < mm.startDate
       \/ mm.endDate # NoDate /\ t > mm.endDate

DateDropped(mm, line) ==
    /\ mm.startDate # NoDate \/ mm.endDate # NoDate
    /\ DateOutside(mm, extractDate(line))

\* The text test with the substring compared as it is written
TextDropped_CaseSensitive(mm, re, line) ==
    /\ mm.filterText # <<>>
    /\ IF mm.regexMode
       THEN re # NoRegex /\ ~MatchString(re, line)
       ELSE ~Contains(line, mm.filterText)

\* Stage 3 (text / regex filter): the line is dropped.  re is m.regex as
\* applyFilters has just compiled it.
TextDropped(mm, re, line) ==
    /\ mm.filterText # <<>>
    /\ IF mm.regexMode
       THEN re # NoRegex /\ ~MatchString(re, line)
       ELSE ~Contains(ToLower(line), ToLower(mm.filterText))

\* The pre-compiled m.regex
CompiledRegex(mm) ==
    IF mm.filterText # <<>>
    THEN IF mm.regexMode THEN CompileRegex(mm.filterText)
                         ELSE CompileQuoted(mm.filterText)
    ELSE NoRegex

\* The filter loop over the raw lines: the lines kept, tabs expanded
RECURSIVE FilterLines(_, _, _)
FilterLines(mm, re, lines) ==
    IF lines = <<>> THEN <<>>
    ELSE LET line == Head(lines)
             rest == FilterLines(mm, re, Tail(lines))
         IN  IF LevelDropped(mm, line) \/ DateDropped(mm, line)
                \/ TextDropped(mm, re, line)
             THEN rest
             ELSE <<ExpandTabs(line)>> \o rest

\* isIndented: a tab or at least two spaces in front
IsIndented(line) == HasPrefix(line, <<"\t">>) \/ HasPrefix(line, <<" ", " ">>)

\* flushTrace without the one-line heuristic
FlushTrace_FoldsOne(traceBuffer) ==
    IF Len(traceBuffer) = 0 THEN <<>>
    ELSE <<FoldSummary(Len(traceBuffer))>>

\* flushTrace: what the buffered run of indented lines adds to the output
FlushTrace(traceBuffer) ==
    IF Len(traceBuffer) = 0 THEN <<>>
    ELSE IF Len(traceBuffer) = 1 THEN traceBuffer
    ELSE <<FoldSummary(Len(traceBuffer))>>

\* The fold loop: filtered lines left to read, and the run buffered so far
RECURSIVE FoldLines(_, _)
FoldLines(filtered, traceBuffer) ==
    IF filtered = <<>> THEN FlushTrace(traceBuffer)
    ELSE LET line == Head(filtered)
         IN  IF IsIndented(line)
             THEN FoldLines(Tail(filtered), Append(traceBuffer, line))
             ELSE FlushTrace(traceBuffer) \o <<line>>
                  \o FoldLines(Tail(filtered), <<>>)

EmptyCache == <<>>

\* (m *Model) applyFilters(resetView)
\* applyFilters, lines 815-851: the fold stage
FoldStage(mm, filtered) ==
    IF mm.foldStackTraces THEN FoldLines(filtered, <<>>) ELSE filtered

\* applyFilters, line 864: m.viewport.SetContent("").  The content is one
\* empty line; a viewport offset beyond it is moved to the bottom,
\* max(0, 1 - Height)
ViewportEmptied(yOffset, height) ==
    IF yOffset > 0 THEN (IF 1 - height < 0 THEN 0 ELSE 1 - height)
    ELSE yOffset

\* The recompute that adds to the view it finds
Refiltered_Appends(mm, re) ==
    [mm EXCEPT !.regex = re,
               !.filteredLines =
                   @ \o FoldStage(mm, FilterLines(mm, re, mm.originalLines)),
               !.viewportYOffset = ViewportEmptied(@, mm.height),
               !.applied = TRUE]

\* applyFilters, lines 746-851 and 864: m.regex and m.filteredLines
\* recomputed, the embedded viewport emptied
Refiltered(mm, re) ==
    [mm EXCEPT !.regex = re,
               !.filteredLines =
                   FoldStage(mm, FilterLines(mm, re, mm.originalLines)),
               !.viewportYOffset = ViewportEmptied(@, mm.height),
               !.applied = TRUE]

ResetView_KeepsSelection(m1, resetView) ==
    IF resetView
    THEN [m1 EXCEPT !.bookmarks = {}, !.yOffset = 0,
                    !.layoutCache = EmptyCache]
    ELSE m1

\* applyFilters, lines 853-869: what resetView clears
ResetView(m1, resetView) ==
    IF resetView
    THEN [m1 EXCEPT !.selectionStart = NoPoint, !.selectionEnd = NoPoint,
                    !.bookmarks = {}, !.yOffset = 0,
                    !.layoutCache = EmptyCache]
    ELSE m1

\* (m *Model) applyFilters(resetView)
applyFilters(mm, resetView) ==
    ResetView(Refiltered(mm, CompiledRegex(mm)), resetView)

\* The fast-path test without the fold flag
canFastAppend_IgnoresFold(mm) ==
    /\ mm.filterText = <<>>
    /\ mm.startDate = NoDate
    /\ mm.endDate = NoDate
    /\ mm.showError
    /\ mm.showWarn
    /\ mm.showInfo
    /\ mm.showDebug

\* (m *Model) canFastAppendWithoutRefilter
canFastAppendWithoutRefilter(mm) ==
    /\ mm.filterText = <<>>
    /\ mm.startDate = NoDate
    /\ mm.endDate = NoDate
    /\ mm.showError
    /\ mm.showWarn
    /\ mm.showInfo
    /\ mm.showDebug
    /\ ~mm.foldStackTraces

\* The fast path's loop body without the tab expansion
FastLine_NoTabs(line) == line

\* The fast path's loop body: the line as it is appended to filteredLines
FastLine(line) == ExpandTabs(line)

\* (m *Model) appendIncomingLines(newLines)
appendIncomingLines(mm, newLines) ==
    IF Len(newLines) = 0 THEN mm
    ELSE IF canFastAppendWithoutRefilter(mm)
    THEN [mm EXCEPT !.originalLines = @ \o newLines,
                    !.filteredLines =
                        @ \o [i \in 1..Len(newLines) |-> FastLine(newLines[i])]]
    ELSE applyFilters([mm EXCEPT !.originalLines = @ \o newLines], FALSE)

\* splitIncomingContent: content is the text, a sequence of characters with
\* "\n" between the lines
RECURSIVE Split(_, _)
Split(content, sep) ==
    IF \E i \in 1..Len(content) : content[i] = sep
    THEN LET i == CHOOSE k \in 1..Len(content) :
                    /\ content[k] = sep
                    /\ \A j \in 1..(k - 1) : content[j] # sep
         IN  <<SubSeq(content, 1, i - 1)>>
             \o Split(SubSeq(content, i + 1, Len(content)), sep)
    ELSE <<content>>

\* splitIncomingContent, lines 738-740: a last empty piece is dropped
DropLastEmpty(lines) ==
    IF Len(lines) > 0 /\ lines[Len(lines)] = <<>>
    THEN SubSeq(lines, 1, Len(lines) - 1)
    ELSE lines

splitIncomingContent(content) == DropLastEmpty(Split(content, "\n"))

----------------------------------------------------------------------------
(* Decoration: match and level highlighting, the bookmark prefix.          *)

SGR_Match == "ESC[30;43m"
SGR_Error == "ESC[1;31m"
SGR_Warn  == "ESC[1;33m"
SGR_Info  == "ESC[1;32m"
SGR_Debug == "ESC[1;34m"
SGR_Sel   == "ESC[97;100m"
AnsiTokens ==
    {SGR_Fold, SGR_Reset, SGR_Match, SGR_Error, SGR_Warn, SGR_Info, SGR_Debug,
     SGR_Sel}

\* The bookmark glyph: one rune, four bytes, two columns wide
BookmarkGlyph == "BOOKMARK"
BookmarkPrefix == <<BookmarkGlyph, " ">>

\* stripAnsi
stripAnsi(str) == SelectSeq(str, LAMBDA c : c \notin AnsiTokens)

\* lipgloss Style.Render of a text with a colour: the text between two
\* control sequences
Styled(sgr, text) == <<sgr>> \o text \o <<SGR_Reset>>

\* highlightMatches: every match of re, left to right, rendered in matchStyle
RECURSIVE highlightMatches(_, _)
\* The leftmost match starts after at characters (-1: none), n long
HighlightFrom(line, re, at, n) ==
    IF at = -1 \/ n = 0 THEN line
    ELSE SubSeq(line, 1, at)
         \o Styled(SGR_Match, SubSeq(line, at + 1, at + n))
         \o highlightMatches(SubSeq(line, at + n + 1, Len(line)), re)

highlightMatches(line, re) ==
    IF re = NoRegex THEN line
    ELSE HighlightFrom(line, re,
                       Index(IF re.fold THEN ToLower(line) ELSE line, re.lit),
                       Len(re.lit))

\* strings.Replace(line, marker, style.Render(marker), 1)
ReplaceAt(line, marker, sgr, at) ==
    SubSeq(line, 1, at) \o Styled(sgr, marker)
    \o SubSeq(line, at + Len(marker) + 1, Len(line))

ReplaceFirst(line, marker, sgr) ==
    ReplaceAt(line, marker, sgr, Index(line, marker))

\* highlightLine: the first level marker of the line, coloured.  (The JSON
\* branch colours keys of a line that is one JSON object; the lines of the
\* model hold no brace.)
highlightLine(line) ==
    IF Contains(line, Str_ERROR) THEN ReplaceFirst(line, Str_ERROR, SGR_Error)
    ELSE IF Contains(line, Str_WARN) THEN ReplaceFirst(line, Str_WARN, SGR_Warn)
    ELSE IF Contains(line, Str_INFO) THEN ReplaceFirst(line, Str_INFO, SGR_Info)
    ELSE IF Contains(line, Str_DEBUG)
         THEN ReplaceFirst(line, Str_DEBUG, SGR_Debug)
    ELSE line

\* (m Model) getDecoratedLine(i, line)
WithBookmark(mm, i, hl) ==
    IF i \in mm.bookmarks THEN BookmarkPrefix \o hl ELSE hl

getDecoratedLine(mm, i, line) ==
    WithBookmark(mm, i, highlightLine(highlightMatches(line, mm.regex)))

----------------------------------------------------------------------------
(* Wrapping: lipgloss.NewStyle().Width(width).Render(text), split at the   *)
(* line breaks.  Greedy word wrap: break at the last whitespace at or      *)
(* before the width boundary, else hard-break at the boundary; every row   *)
(* is then padded with spaces to the width.                                *)

\* runewidth.RuneWidth, and zero for a control sequence
CharWidth(c) ==
    IF c \in AnsiTokens THEN 0 ELSE IF c = BookmarkGlyph THEN 2 ELSE 1

RECURSIVE TextWidth(_)
TextWidth(text) ==
    IF text = <<>> THEN 0 ELSE CharWidth(Head(text)) + TextWidth(Tail(text))

\* The runes of a control sequence: the model writes the escape character
\* as the three letters ESC
AnsiRunes(c) == Len(c) - 2

\* len(c) in bytes
CharBytes(c) ==
    IF c = BookmarkGlyph THEN 4 ELSE IF c \in AnsiTokens THEN AnsiRunes(c) ELSE 1

\* utf8.RuneCountInString
RECURSIVE RuneCount(_)
RuneCount(text) ==
    IF text = <<>> THEN 0
    ELSE (IF Head(text) \in AnsiTokens THEN AnsiRunes(Head(text)) ELSE 1)
         + RuneCount(Tail(text))

\* runewidth.RuneWidth of every rune of text, in order: the escape character
\* of a control sequence is 0 wide, its other runes 1
RuneWidths(text) ==
    Flatten([i \in 1..Len(text) |->
        IF text[i] \in AnsiTokens
        THEN <<0>> \o [k \in 1..(AnsiRunes(text[i]) - 1) |-> 1]
        ELSE <<CharWidth(text[i])>>])

RECURSIVE ByteLen(_)
ByteLen(text) ==
    IF text = <<>> THEN 0 ELSE CharBytes(Head(text)) + ByteLen(Tail(text))

Spaces(n) == [i \in 1..n |-> " "]

RECURSIVE WrapSegments(_, _)
\* The longest prefix of text that fits the width
FitCount(text, width) ==
    CHOOSE n \in 0..Len(text) :
       /\ TextWidth(SubSeq(text, 1, n)) <= width
       /\ \A k \in (n + 1)..Len(text) : TextWidth(SubSeq(text, 1, k)) > width

\* The spaces a row of fit characters may break at
BreakSpaces(text, fit) == {p \in 1..(fit + 1) : text[p] = " "}

\* The row ends before position p; the text goes on at position q
WrapAt(text, width, p, q) ==
    <<SubSeq(text, 1, p - 1)>> \o WrapSegments(SubSeq(text, q, Len(text)), width)

WrapWith(text, width, fit, ws) ==
    IF ws # {}
    THEN WrapAt(text, width, CHOOSE q \in ws : \A r \in ws : r <= q,
                (CHOOSE q \in ws : \A r \in ws : r <= q) + 1)
    ELSE WrapAt(text, width, (IF fit = 0 THEN 1 ELSE fit) + 1,
                (IF fit = 0 THEN 1 ELSE fit) + 1)

WrapFit(text, width, fit) == WrapWith(text, width, fit, BreakSpaces(text, fit))

WrapSegments(text, width) ==
    IF TextWidth(text) <= width THEN <<text>>
    ELSE WrapFit(text, width, FitCount(text, width))

\* Every row padded with spaces to the width
PadRows(segs, width) ==
    [i \in 1..Len(segs) |->
        segs[i] \o Spaces(IF TextWidth(segs[i]) < width
                          THEN width - TextWidth(segs[i]) ELSE 0)]

\* strings.Split(Render(text), "\n")
Render(width, text) == PadRows(WrapSegments(text, width), width)

\* The width View and resolvePos wrap to
WrapWidth(mm) == IF mm.screenWidth <= 0 THEN 80 ELSE mm.screenWidth

----------------------------------------------------------------------------
(* The layout cache, as View and resolvePos fill it.  layoutCache is a     *)
(* function from line indices (0-based, as in the code) to rows.           *)

\* filteredLines[idx], idx counted from 0
LineAt(mm, idx) == mm.filteredLines[idx + 1]

CachePut(cache, idx, parts) ==
    [i \in (DOMAIN cache) \cup {idx} |-> IF i = idx THEN parts ELSE cache[i]]

CacheDelete_Kept(cache, idx) == cache

\* Update, line 582: delete(m.layoutCache, row)
CacheDelete(cache, idx) == [i \in (DOMAIN cache) \ {idx} |-> cache[i]]

\* resolvePos, lines 1609-1624: the plain text of line idx, the bookmark
\* prefix in front of a bookmarked line
OriginalClean(mm, idx) == WithBookmark(mm, idx, stripAnsi(LineAt(mm, idx)))

\* What resolvePos stores for line idx: the plain text wrapped
ResolveParts(mm, idx) == Render(WrapWidth(mm), OriginalClean(mm, idx))

\* What View stores for line idx: the line decorated (getDecoratedLine is
\* applied at line 964 and again at line 1041), wrapped
ViewParts(mm, idx) ==
    Render(WrapWidth(mm),
           getDecoratedLine(mm, idx, getDecoratedLine(mm, idx, LineAt(mm, idx))))

\* View's test whether the selection touches line idx
LineSelected(mm, idx) ==
    /\ mm.selectionStart # NoPoint
    /\ mm.selectionEnd # NoPoint
    /\ LET a == mm.selectionStart
           b == mm.selectionEnd
           swap == a.Y > b.Y \/ (a.Y = b.Y /\ a.X > b.X)
           lo == IF swap THEN b ELSE a
           hi == IF swap THEN a ELSE b
       IN  idx >= lo.Y /\ idx <= hi.Y

\* The visible slice [start, end) of View
ViewStart(mm) ==
    IF mm.yOffset >= Len(mm.filteredLines) THEN Len(mm.filteredLines)
    ELSE mm.yOffset

ViewEnd(mm) ==
    IF mm.yOffset + mm.height > Len(mm.filteredLines)
    THEN Len(mm.filteredLines)
    ELSE mm.yOffset + mm.height

\* View, lines 896-905: start and end are not the bounds of a slice of
\* filteredLines, and the slice expression panics
ViewPanics(mm) ==
    /\ mm.ready
    /\ ~mm.showHelp
    /\ \/ ViewStart(mm) < 0
       \/ ViewEnd(mm) < ViewStart(mm)

\* View, line 905: visibleLines := m.filteredLines[start:end]
VisibleLines(mm) == SubSeq(mm.filteredLines, ViewStart(mm) + 1, ViewEnd(mm))

\* (m Model) View(): what it leaves in the layout cache (the map is shared
\* with the model the runtime holds)
ViewCache(mm) ==
    IF ~mm.ready \/ mm.showHelp \/ ~mm.wrap THEN mm.layoutCache
    ELSE LET fresh == {i \in ViewStart(mm)..(ViewEnd(mm) - 1) :
                         i \notin DOMAIN mm.layoutCache /\ ~LineSelected(mm, i)}
         IN  [i \in (DOMAIN mm.layoutCache) \cup fresh |->
                IF i \in fresh THEN ViewParts(mm, i) ELSE mm.layoutCache[i]]

----------------------------------------------------------------------------
(* The Coordinate Resolver: resolvePos.                                    *)

\* s[b:], b a byte offset
RECURSIVE DropBytes(_, _)
DropBytes(text, b) ==
    IF b <= 0 \/ text = <<>> THEN text
    ELSE DropBytes(Tail(text), b - CharBytes(Head(text)))

\* The loop over the rows above localRow: the byte and rune offsets it
\* ends with.  k is the row it is at.
RECURSIVE SkipRows(_, _, _, _, _, _)
\* One row: part is the row, rest the text from the byte offset, matchIdx
\* the place of the row in it
SkipRow(originalClean, parts, k, localRow, byteOff, runeOff, part, rest, matchIdx) ==
    IF matchIdx = -1
    THEN SkipRows(originalClean, parts, k + 1, localRow,
                  byteOff + ByteLen(part), runeOff + RuneCount(part))
    ELSE SkipRows(originalClean, parts, k + 1, localRow,
                  byteOff + ByteLen(SubSeq(rest, 1, matchIdx)) + ByteLen(part),
                  runeOff + RuneCount(SubSeq(rest, 1, matchIdx))
                      + RuneCount(part))

SkipFrom(originalClean, parts, k, localRow, byteOff, runeOff, part, rest) ==
    SkipRow(originalClean, parts, k, localRow, byteOff, runeOff, part, rest,
            Index(rest, part))

SkipRows(originalClean, parts, k, localRow, byteOff, runeOff) ==
    IF k >= localRow \/ byteOff >= ByteLen(originalClean)
    THEN [bytes |-> byteOff, runes |-> runeOff]
    ELSE SkipFrom(originalClean, parts, k, localRow, byteOff, runeOff,
                  parts[k + 1], DropBytes(originalClean, byteOff))

\* The widths of the first n runes, summed
CumWidth(w) ==
    LET Cum[n \in 0..Len(w)] == IF n = 0 THEN 0 ELSE Cum[n - 1] + w[n]
    IN  Cum

FirstHit(hit, n) ==
    IF hit = {} THEN n ELSE (CHOOSE r \in hit : \A q \in hit : r <= q) - 1

FoundIn(w, cum, visualX) ==
    FirstHit({r \in 1..Len(w) : cum[r] > visualX}, Len(w))

FoundW(w, visualX) == FoundIn(w, CumWidth(w), visualX)

\* The rune of the row that covers visual column visualX; the number of
\* runes of the row when none does
FoundIdx(currentPart, visualX) == FoundW(RuneWidths(currentPart), visualX)

\* Where the row starts in the line, in runes
StartOfLineRuneIdx(off, rest, matchIdx) ==
    IF matchIdx # -1 THEN off.runes + RuneCount(SubSeq(rest, 1, matchIdx))
    ELSE off.runes

RowStartIn(originalClean, off, rest, currentPart) ==
    StartOfLineRuneIdx(off, rest,
                       IF off.bytes < ByteLen(originalClean)
                       THEN Index(rest, currentPart) ELSE -1)

RowStart(originalClean, off, currentPart) ==
    RowStartIn(originalClean, off, DropBytes(originalClean, off.bytes),
               currentPart)

FinalIdx(originalClean, parts, localRow, visualX) ==
    RowStart(originalClean, SkipRows(originalClean, parts, 0, localRow, 0, 0),
             parts[localRow + 1])
    + FoundIdx(parts[localRow + 1], visualX)

\* The bookmark prefix is not part of the line
Unprefixed(mm, idx, finalIdx) ==
    IF idx \in mm.bookmarks
    THEN IF finalIdx - RuneCount(BookmarkPrefix) < 0 THEN 0
         ELSE finalIdx - RuneCount(BookmarkPrefix)
    ELSE finalIdx

\* The character index resolvePos returns for row localRow of line idx
ResolveColumn(mm, idx, parts, localRow, visualX) ==
    Unprefixed(mm, idx,
               FinalIdx(OriginalClean(mm, idx), parts, localRow, visualX))

\* The wrap-mode loop of resolvePos over the lines from the scroll offset:
\* i is the loop index, currentVisualY the rows passed, cache the layout
\* cache as filled so far
RECURSIVE ResolveWalk(_, _, _, _, _, _)
\* Line idx with its rows parts; cache1 is the cache with them in it
WalkLine(mm, i, idx, currentVisualY, visualX, visualY, parts, cache1) ==
    IF visualY < currentVisualY + Len(parts)
    THEN [line  |-> idx,
          col   |-> ResolveColumn(mm, idx, parts, visualY - currentVisualY,
                                  visualX),
          cache |-> cache1]
    ELSE IF currentVisualY + Len(parts) > visualY
    THEN [line |-> -1, col |-> -1, cache |-> cache1]
    ELSE ResolveWalk(mm, cache1, i + 1, currentVisualY + Len(parts),
                     visualX, visualY)

WalkParts(mm, cache, i, idx, currentVisualY, visualX, visualY, parts) ==
    WalkLine(mm, i, idx, currentVisualY, visualX, visualY, parts,
             IF idx \in DOMAIN cache THEN cache
             ELSE CachePut(cache, idx, parts))

WalkAt(mm, cache, i, idx, currentVisualY, visualX, visualY) ==
    IF idx >= Len(mm.filteredLines)
    THEN [line |-> -1, col |-> -1, cache |-> cache]
    ELSE WalkParts(mm, cache, i, idx, currentVisualY, visualX, visualY,
                   IF idx \in DOMAIN cache THEN cache[idx]
                   ELSE ResolveParts(mm, idx))

ResolveWalk(mm, cache, i, currentVisualY, visualX, visualY) ==
    WalkAt(mm, cache, i, mm.yOffset + i, currentVisualY, visualX, visualY)

GutterWidth == 3

resolvePos_Unclamped(mm, visualX, visualY) ==
    [line  |-> mm.yOffset + visualY,
     col   |-> mm.xOffset + visualX - GutterWidth,
     cache |-> mm.layoutCache]

\* (m Model) resolvePos(visualX, visualY): the line and the character index,
\* and the layout cache it leaves
resolvePos(mm, visualX, visualY) ==
    IF ~mm.wrap
    THEN [line  |-> mm.yOffset + visualY,
          col   |-> IF mm.xOffset + visualX - GutterWidth < 0 THEN 0
                    ELSE mm.xOffset + visualX - GutterWidth,
          cache |-> mm.layoutCache]
    ELSE ResolveWalk(mm, mm.layoutCache, 0, 0, visualX, visualY)

----------------------------------------------------------------------------
(* ui.Model and Model.Update.  A message is a record with a type field.    *)
(* Update works on the Model record; the fields cmds (the commands the     *)
(* call returns) and applied (the call ran applyFilters) belong to one     *)
(* call and are reset when the runtime stores the model.                   *)

headerHeight == 3
footerHeight == 3

ModeNormal       == "ModeNormal"
ModeFilter       == "ModeFilter"
ModeSetStartDate == "ModeSetStartDate"
ModeSetEndDate   == "ModeSetEndDate"
ModeJumpTime     == "ModeJumpTime"

\* InitialModel(filename, lines, reader); stdin tells filename == "Stdin"
\* with a reader.  clipboard is the text the program last wrote to the system
\* clipboard; cmds, applied and copied tell what the call of Update did.
InitialModel(lines, stdin) ==
    applyFilters(
        [originalLines   |-> lines,
         filteredLines   |-> lines,
         inputMode       |-> ModeNormal,
         showError       |-> TRUE,
         showWarn        |-> TRUE,
         showInfo        |-> TRUE,
         showDebug       |-> TRUE,
         regexMode       |-> FALSE,
         filterText      |-> <<>>,
         regex           |-> NoRegex,
         startDate       |-> NoDate,
         endDate         |-> NoDate,
         selecting       |-> FALSE,
         selectionStart  |-> NoPoint,
         selectionEnd    |-> NoPoint,
         xOffset         |-> 0,
         yOffset         |-> 0,
         screenWidth     |-> 0,
         height          |-> 0,
         wrap            |-> FALSE,
         ready           |-> FALSE,
         following       |-> stdin,
         foldStackTraces |-> FALSE,
         bookmarks       |-> {},
         showHelp        |-> FALSE,
         streamer        |-> stdin,
         watcher         |-> TRUE,
         fileSize        |-> 0,
         viewportYOffset |-> 0,
         clipboard       |-> <<>>,
         copied          |-> FALSE,
         layoutCache     |-> EmptyCache,
         cmds            |-> <<>>,
         applied         |-> FALSE],
        TRUE)

\* len(m.filteredLines) - m.viewport.Height, not below 0
MaxOffset(mm) ==
    IF Len(mm.filteredLines) - mm.height < 0 THEN 0
    ELSE Len(mm.filteredLines) - mm.height

\* "Virtualized goto bottom" of the two ingest branches and of "f"
GotoBottom(mm) == [mm EXCEPT !.yOffset = MaxOffset(mm)]

\* The ingest branches without the auto-scroll
FollowBottom_Never(a) == a

\* Update, lines 236-242 and 253-258: "Auto-scroll if following"
FollowBottom(a) == IF a.following THEN GotoBottom(a) ELSE a

\* Update, lines 243-244: "Continue watching"
RearmWatch(m1) ==
    IF m1.watcher THEN [m1 EXCEPT !.cmds = Append(@, "WaitForFileChange")]
    ELSE m1

\* Update, lines 221-245: a FileChangeMsg
UpdateFileChange(mm, msg) ==
    RearmWatch(
        IF msg.err \/ msg.content = <<>> THEN mm
        ELSE FollowBottom(
                [appendIncomingLines(mm, splitIncomingContent(msg.content))
                    EXCEPT !.fileSize = msg.newOffset]))

\* The stream wait re-armed only when no input is open
RearmStream_WhenIdle(m1) ==
    IF m1.streamer /\ m1.inputMode = ModeNormal
    THEN [m1 EXCEPT !.cmds = Append(@, "WaitForStream")]
    ELSE m1

\* Update, lines 261-264: "Continue stream loop"
RearmStream(m1) ==
    IF m1.streamer THEN [m1 EXCEPT !.cmds = Append(@, "WaitForStream")]
    ELSE m1

\* Update, lines 247-265: a LogChunkMsg
UpdateLogChunk(mm, msg) ==
    RearmStream(
        IF msg.err \/ Len(msg.lines) = 0 THEN mm
        ELSE FollowBottom(appendIncomingLines(mm, msg.lines)))

\* Update, lines 270-292: a tea.WindowSizeMsg; the call returns here
UpdateWindowSize(mm, msg) ==
    [mm EXCEPT !.screenWidth = msg.width,
               !.height = msg.height - (headerHeight + footerHeight),
               !.ready = TRUE,
               !.viewportYOffset = IF mm.ready THEN @ ELSE 0,
               !.layoutCache = EmptyCache,
               !.cmds = <<>>]

\* Update, lines 316-327: the selection after resolvePos returned r
Selected(mm, msg, r) ==
    IF r.line >= 0 /\ r.line < Len(mm.filteredLines)
    THEN IF msg.action = "press"
         THEN [mm EXCEPT !.layoutCache = r.cache,
                         !.selecting = TRUE,
                         !.selectionStart = [X |-> r.col, Y |-> r.line],
                         !.selectionEnd = [X |-> r.col, Y |-> r.line]]
         ELSE [mm EXCEPT !.layoutCache = r.cache,
                         !.selectionEnd = [X |-> r.col, Y |-> r.line]]
    ELSE [mm EXCEPT !.layoutCache = r.cache]

\* Update, lines 295-332: a mouse event over the viewport (selection)
UpdateMouseSelection(mm, msg) ==
    IF ~(/\ msg.Y >= headerHeight
         /\ msg.Y < mm.height + headerHeight
         /\ msg.Y - headerHeight + mm.yOffset >= 0
         /\ msg.Y - headerHeight + mm.yOffset < Len(mm.filteredLines))
    THEN mm
    ELSE IF /\ msg.button = "left"
            /\ \/ msg.action = "press"
               \/ msg.action = "motion" /\ mm.selecting
    THEN Selected(mm, msg, resolvePos(mm, msg.X, msg.Y - headerHeight))
    ELSE IF msg.action = "release" /\ msg.button = "left"
    THEN [mm EXCEPT !.selecting = FALSE]
    ELSE mm

\* copySelection, lines 1537-1548: "Clamp"
ClampCol(col, n) == IF col < 0 THEN 0 ELSE IF col > n THEN n ELSE col

\* copySelection, lines 1550-1555: runes[startCol:endCol], or "" for an
\* empty or invalid range
CopyRow(runes, startCol, endCol) ==
    IF startCol < endCol THEN SubSeq(runes, startCol + 1, endCol) ELSE <<>>

\* copySelection, lines 1525-1555: what line i (from 0) gives to the copy
CopyLine(runes, i, start, end) ==
    CopyRow(runes,
            ClampCol(IF i = start.Y THEN start.X ELSE 0, Len(runes)),
            ClampCol(IF i = end.Y THEN end.X + 1 ELSE Len(runes), Len(runes)))

\* copySelection, line 1525: the loop from start.Y while i <= end.Y and
\* i < len(lines)
CopyLast(lines, end) == IF end.Y < Len(lines) - 1 THEN end.Y ELSE Len(lines) - 1

CopyLines(lines, start, end) ==
    [k \in 1..(CopyLast(lines, end) - start.Y + 1) |->
        CopyLine(stripAnsi(lines[start.Y + k]), start.Y + k - 1, start, end)]

\* strings.Join(selectedLines, "\n")
RECURSIVE Join(_)
Join(rows) ==
    IF rows = <<>> THEN <<>>
    ELSE IF Len(rows) = 1 THEN Head(rows)
    ELSE Head(rows) \o <<"\n">> \o Join(Tail(rows))

\* copySelection, lines 1518-1520: "Normalize"
SelectionSwapped(start, end) ==
    start.Y > end.Y \/ (start.Y = end.Y /\ start.X > end.X)

\* The copied text without the normalisation of the two points
SelectionText_Unordered(lines, start, end) ==
    Join(CopyLines(lines, start, end))

\* copySelection, lines 1516-1561: the text written to the clipboard
SelectionText(lines, start, end) ==
    IF SelectionSwapped(start, end) THEN Join(CopyLines(lines, end, start))
    ELSE Join(CopyLines(lines, start, end))

\* (m *Model) copySelection: the text goes to the clipboard, the selection
\* is cleared
copySelection(mm) ==
    IF mm.selectionStart # NoPoint /\ mm.selectionEnd # NoPoint
    THEN [mm EXCEPT !.clipboard = SelectionText(mm.filteredLines,
                                                mm.selectionStart,
                                                mm.selectionEnd),
                    !.copied = TRUE,
                    !.selectionStart = NoPoint,
                    !.selectionEnd = NoPoint]
    ELSE mm

\* Update, lines 346-352: a start date was entered and parsed to t
StartDateSet(mm, t) == IF t # NoDate THEN [mm EXCEPT !.startDate = t] ELSE mm

\* Update, lines 355-361: an end date was entered and parsed to t
EndDateSet(mm, t) == IF t # NoDate THEN [mm EXCEPT !.endDate = t] ELSE mm

\* time.Parse of val with "15:04" and "15:04:05": the seconds of the day,
\* -1 when neither format reads it.  (The third format, "3:04PM", reads a
\* text with AM or PM, which the inputs of the model do not hold.)
ClockShort == <<"d", "d", ":", "d", "d">>

ParseClock(val) ==
    IF Len(val) = 5 /\ ShapeAt(val, 1, ClockShort)
       /\ Num2(val, 1) < 24 /\ Num2(val, 4) < 60
    THEN (Num2(val, 1) * 3600) + (Num2(val, 4) * 60)
    ELSE IF Len(val) = 8 /\ ShapeAt(val, 1, TimeShape) /\ ClockValid(val, 1)
    THEN ClockSeconds(val, 1)
    ELSE -1

\* Update, lines 366-398: the time to jump to.  direct is parseDate(val);
\* when it failed, val is read as a time of day on the date of the first
\* line of the view.  NoDate: no target.
JumpBase(mm) ==
    IF Len(mm.filteredLines) > 0 THEN extractDate(mm.filteredLines[1])
    ELSE NoDate

JumpOnDay(direct, base, clock) ==
    IF base # NoDate /\ clock # -1 THEN (base - (base % 86400)) + clock
    ELSE direct

JumpTarget(mm, val, direct) ==
    IF direct # NoDate THEN direct
    ELSE JumpOnDay(direct, JumpBase(mm), ParseClock(val))

\* Update, lines 401-413: "Search for first line >= target"
JumpHits(mm, target) ==
    {i \in 1..Len(mm.filteredLines) :
        /\ extractDate(mm.filteredLines[i]) # NoDate
        /\ extractDate(mm.filteredLines[i]) >= target}

JumpFound(mm, hits) ==
    IF hits = {} THEN mm
    ELSE [mm EXCEPT !.viewportYOffset =
                       (CHOOSE i \in hits : \A j \in hits : i <= j) - 1]

JumpTo(mm, target) ==
    IF target = NoDate THEN mm ELSE JumpFound(mm, JumpHits(mm, target))

\* Update, lines 340-418: enter with val in the text input.  Jump-to-time
\* sets the vertical offset of the embedded viewport (line 409).
InputEntered(mm, val) ==
    IF mm.inputMode = ModeFilter
    THEN applyFilters([mm EXCEPT !.filterText = val], TRUE)
    ELSE IF mm.inputMode = ModeSetStartDate
    THEN IF val = <<>> THEN [mm EXCEPT !.startDate = NoDate]
         ELSE StartDateSet(mm, parseDate(val))
    ELSE IF mm.inputMode = ModeSetEndDate
    THEN IF val = <<>> THEN [mm EXCEPT !.endDate = NoDate]
         ELSE EndDateSet(mm, parseDate(val))
    ELSE IF mm.inputMode = ModeJumpTime /\ val # <<>>
    THEN JumpTo(mm, JumpTarget(mm, val, parseDate(val)))
    ELSE mm

\* Update, lines 335-436: any message while a text input is open; the call
\* returns here.  msg.val is textInput.Value() when enter is pressed.
UpdateInputMode(mm, msg) ==
    IF msg.type = "Key" /\ msg.key = "enter"
    THEN [applyFilters([InputEntered(mm, msg.val) EXCEPT !.inputMode = ModeNormal],
                       TRUE)
            EXCEPT !.cmds = <<>>]
    ELSE IF msg.type = "Key" /\ msg.key = "esc"
    THEN [applyFilters([mm EXCEPT !.inputMode = ModeNormal], TRUE)
            EXCEPT !.cmds = <<>>]
    ELSE IF msg.type = "Key" /\ msg.key = "ctrl+y"
    THEN [copySelection(mm) EXCEPT !.cmds = <<>>]
    ELSE mm

\* The keys of the first key switch that end the call (return m, cmd).
\* Not modelled: "q" and "ctrl+c", which end the program, and "t", the
\* timeline overlay.
ReturningKeys == {"?", "y", "/", "[", "]", "J"}

\* Esc that clears the filters whether or not there is a selection
UpdateEsc_ClearsAll(mm) ==
    applyFilters([mm EXCEPT !.filterText = <<>>,
                            !.startDate = NoDate,
                            !.endDate = NoDate], TRUE)

\* Update, lines 457-467: "esc" in normal mode
UpdateEsc(mm) ==
    IF mm.selectionStart # NoPoint
    THEN [mm EXCEPT !.selectionStart = NoPoint, !.selectionEnd = NoPoint]
    ELSE applyFilters([mm EXCEPT !.filterText = <<>>,
                                 !.startDate = NoDate,
                                 !.endDate = NoDate], TRUE)

\* Update, lines 438-625: a key in normal mode, first switch
UpdateNormalKey(mm, key) ==
    CASE key = "?" -> [mm EXCEPT !.showHelp = ~@]
      [] key = "y" -> copySelection(mm)
      [] key = "esc" -> UpdateEsc(mm)
      [] key = "/" -> [mm EXCEPT !.inputMode = ModeFilter]
      [] key = "[" -> [mm EXCEPT !.inputMode = ModeSetStartDate]
      [] key = "]" -> [mm EXCEPT !.inputMode = ModeSetEndDate]
      [] key = "1" -> applyFilters([mm EXCEPT !.showError = ~@], TRUE)
      [] key = "2" -> applyFilters([mm EXCEPT !.showWarn = ~@], TRUE)
      [] key = "3" -> applyFilters([mm EXCEPT !.showInfo = ~@], TRUE)
      [] key = "4" -> applyFilters([mm EXCEPT !.showDebug = ~@], TRUE)
      [] key = "R" -> applyFilters([mm EXCEPT !.regexMode = ~@], TRUE)
      [] key \in {"right", "l"} -> [mm EXCEPT !.xOffset = @ + 5]
      [] key \in {"left", "h"} ->
            [mm EXCEPT !.xOffset = IF @ - 5 < 0 THEN 0 ELSE @ - 5]
      [] key = "w" -> [mm EXCEPT !.wrap = ~@]
      [] key = "c" -> applyFilters([mm EXCEPT !.startDate = NoDate,
                                             !.endDate = NoDate,
                                             !.filterText = <<>>,
                                             !.regexMode = FALSE], TRUE)
      [] key = "f" -> FollowBottom([mm EXCEPT !.following = ~@])
      [] key = "z" -> applyFilters([mm EXCEPT !.foldStackTraces = ~@], TRUE)
      [] key = "J" -> [mm EXCEPT !.inputMode = ModeJumpTime]
      [] key = "m" ->
            LET row == mm.yOffset
            IN  [mm EXCEPT !.bookmarks = IF row \in @ THEN @ \ {row}
                                         ELSE @ \cup {row},
                           !.layoutCache = CacheDelete(@, row)]
      [] key = "n" ->
            LET later == {row \in mm.bookmarks : row >= mm.yOffset + 1}
            IN  IF later = {} THEN mm
                ELSE [mm EXCEPT !.yOffset =
                        CHOOSE row \in later : \A q \in later : row <= q]
      [] key = "N" ->
            LET earlier == {row \in mm.bookmarks : row <= mm.yOffset - 1}
            IN  IF earlier = {} THEN mm
                ELSE [mm EXCEPT !.yOffset =
                        CHOOSE row \in earlier : \A q \in earlier : row >= q]
      [] OTHER -> mm

\* Update, lines 627-669: the scroll switch
UpdateScroll(mm, msg) ==
    IF msg.type = "Key"
    THEN CASE msg.key \in {"up", "k"} -> [mm EXCEPT !.yOffset = @ - 1]
           [] msg.key \in {"down", "j"} -> [mm EXCEPT !.yOffset = @ + 1]
           [] msg.key \in {"pgup", "ctrl+b"} ->
                 [mm EXCEPT !.yOffset = @ - mm.height]
           [] msg.key \in {"pgdown", "ctrl+f", "space"} ->
                 [mm EXCEPT !.yOffset = @ + mm.height]
           [] msg.key \in {"home", "g"} -> [mm EXCEPT !.yOffset = 0]
           [] msg.key \in {"end", "G"} ->
                 [mm EXCEPT !.yOffset = Len(mm.filteredLines) - mm.height]
           [] OTHER -> mm
    ELSE IF msg.type = "Mouse"
    THEN CASE msg.button = "wheelup" ->
                 IF msg.mod
                 THEN [mm EXCEPT !.xOffset = IF @ - 5 < 0 THEN 0 ELSE @ - 5]
                 ELSE [mm EXCEPT !.yOffset = @ - 1]
           [] msg.button = "wheeldown" ->
                 IF msg.mod THEN [mm EXCEPT !.xOffset = @ + 5]
                 ELSE [mm EXCEPT !.yOffset = @ + 1]
           [] msg.button = "wheelleft" ->
                 [mm EXCEPT !.xOffset = IF @ - 5 < 0 THEN 0 ELSE @ - 5]
           [] msg.button = "wheelright" -> [mm EXCEPT !.xOffset = @ + 5]
           [] OTHER -> mm
    ELSE mm

\* Update, lines 671-681: "Clamp yOffset"
ClampYOffset(mm) ==
    LET lo == IF mm.yOffset < 0 THEN 0 ELSE mm.yOffset
    IN  [mm EXCEPT !.yOffset = IF lo > MaxOffset(mm) THEN MaxOffset(mm) ELSE lo]

\* Update, lines 683-687: follow mode ends when the view is above the bottom
DisableFollow(mm) ==
    IF mm.yOffset < MaxOffset(mm) THEN [mm EXCEPT !.following = FALSE] ELSE mm

\* Update, lines 627-703: scroll, clamp, follow
UpdateTail(m4, msg) == DisableFollow(ClampYOffset(UpdateScroll(m4, msg)))

\* Update, lines 448-625: m4 is the model after the first key switch; the
\* keys that return there skip the rest
AfterKey(m3, msg, m4) ==
    IF /\ msg.type = "Key"
       /\ \/ msg.key \in ReturningKeys
          \/ msg.key = "esc" /\ m3.selectionStart # NoPoint
    THEN m4
    ELSE UpdateTail(m4, msg)

\* Update, lines 335-703: after the mouse selection
UpdateKeys(m3, msg) ==
    IF m3.inputMode # ModeNormal THEN UpdateInputMode(m3, msg)
    ELSE IF msg.type = "Key" /\ m3.showHelp
    THEN IF msg.key \in {"esc", "?", "q"} THEN [m3 EXCEPT !.showHelp = FALSE]
         ELSE m3
    ELSE AfterKey(m3, msg,
                  IF msg.type = "Key" THEN UpdateNormalKey(m3, msg.key) ELSE m3)

\* Update, lines 267-703: after the two ingest branches
UpdateFrom(m2, msg) ==
    IF msg.type = "WindowSize" THEN UpdateWindowSize(m2, msg)
    ELSE UpdateKeys(IF msg.type = "Mouse" THEN UpdateMouseSelection(m2, msg)
                    ELSE m2,
                    msg)

\* Update, lines 221-265: the two ingest branches
UpdateIngest(mm, msg) ==
    IF msg.type = "FileChange" THEN UpdateFileChange(mm, msg)
    ELSE IF msg.type = "LogChunk" THEN UpdateLogChunk(mm, msg)
    ELSE mm

\* (m Model) Update(msg): the model it returns, with the commands in cmds
Update(m0, msg) ==
    UpdateFrom(UpdateIngest([m0 EXCEPT !.cmds = <<>>, !.applied = FALSE,
                                       !.copied = FALSE], msg),
               msg)

\* The model the runtime keeps after Update returned r
Stored(r) == [r EXCEPT !.cmds = <<>>, !.applied = FALSE, !.copied = FALSE]

----------------------------------------------------------------------------
(* The lines and the messages the specifications draw their inputs from.   *)

L_error == <<"E", "R", "R", "O", "R", " ", "x">>
L_tab   == <<"\t", "a", "t", " ", "y">>
L_ind   == <<" ", " ", "a", "t", " ", "z">>
L_date  == <<"2", "0", "2", "3", "-", "0", "1", "-", "0", "2", " ",
             "1", "0", ":", "0", "0", ":", "0", "0", " ", "a", "t">>

LineUniverse == {L_error, L_tab, L_ind, L_date}

\* The sequences over S of length lo..hi
SeqsOf(S, lo, hi) == UNION {[1..n -> S] : n \in lo..hi}

\* The text of a file delta: every line followed by "\n"
RECURSIVE JoinLines(_)
JoinLines(lines) ==
    IF lines = <<>> THEN <<>>
    ELSE Head(lines) \o <<"\n">> \o JoinLines(Tail(lines))

KeyMsg(key, val) == [type |-> "Key", key |-> key, val |-> val]
LogChunkMsg(lines, err) == [type |-> "LogChunk", lines |-> lines, err |-> err]
FileChangeMsg(content, newOffset, err) ==
    [type |-> "FileChange", content |-> content, newOffset |-> newOffset,
     err |-> err]
WindowSizeMsg(sz) ==
    [type |-> "WindowSize", width |-> sz.width, height |-> sz.height]
MouseMsg(ev) ==
    [type |-> "Mouse", X |-> ev.X, Y |-> ev.Y, action |-> ev.action,
     button |-> ev.button, mod |-> FALSE]

D_0103 == <<"2", "0", "2", "3", "-", "0", "1", "-", "0", "3">>
D_bad  == <<"2", "0", "2", "3", "-", "1", "3", "-", "4", "5">>

\* What the text input may hold when enter is pressed
InputValues(mode) ==
    IF mode = ModeFilter THEN {<<"a", "t">>, <<"[">>}
    ELSE IF mode \in {ModeSetStartDate, ModeSetEndDate}
    THEN {<<>>, D_0103, D_bad}
    ELSE IF mode = ModeJumpTime
    THEN {<<>>, D_0103, D_bad, <<"1", "1", ":", "0", "0">>}
    ELSE {<<>>}

----------------------------------------------------------------------------
(* The consumer: the runtime hands Update one message at a time and keeps  *)
(* the model it returns; between two messages it may render.               *)

\* hist records what has happened: fast, the batches appended since
\* applyFilters last ran; sizes, the sizes of the batches handed over by
\* the producer; timed, whether the flush interval has ever elapsed; errs,
\* the error events Update has received; rearmed, the stream waits armed
\* after an error event; init, the lines the program started with; shown,
\* the lines View last took as visible; crashed, View has panicked; copied,
\* the two ends of the selection that copySelection last copied; busy, the
\* last message was a batch that came while an input was open or the help
\* was shown.
HistInit == [fast |-> 0, sizes |-> <<>>, timed |-> FALSE, errs |-> 0,
             rearmed |-> 0, init |-> <<>>, shown |-> <<>>, crashed |-> FALSE,
             copied |-> <<>>, busy |-> FALSE]

\* No producer goroutine, no stream wait
ProdIdle == [pc |-> "none", lines |-> <<>>, end |-> "eof", pos |-> 0,
             batch |-> <<>>, elapsed |-> FALSE]
ChanIdle == [lines |-> <<>>, err |-> <<>>, linesClosed |-> FALSE,
             errClosed |-> FALSE]
RtIdle   == [armed |-> FALSE, msgs |-> <<>>, ended |-> FALSE]

\* resolvePos has not been called; x and y are the arguments of the last
\* call, line and col what it returned
PosNone == [called |-> FALSE, x |-> 0, y |-> 0, line |-> -1, col |-> -1]

\* The watched file is not written and no file wait is followed: file, the
\* bytes of the file; base, the size os.Stat gave InitialModel; events, the
\* write events the watcher holds; armed and offset, the WaitForFileChange
\* command in flight and the offset it was built with; msgs, the message it
\* returned and Update has not yet had; got, the bytes the successful
\* messages have carried; failed, the error messages Update has had
FsIdle == [file |-> <<>>, base |-> 0, events |-> 0, armed |-> FALSE,
           offset |-> 0, msgs |-> <<>>, got |-> <<>>, failed |-> 0]

\* The program started on a file holding one of stores, or on stdin
UIInit(stores, modes) ==
    /\ \E stdin \in modes :
         \E lines \in (IF stdin THEN {<<>>} ELSE stores) :
            m = Stored(InitialModel(lines, stdin))
    /\ hist = HistInit
    /\ prod = ProdIdle
    /\ chan = ChanIdle
    /\ rt = RtIdle
    /\ fs = FsIdle
    /\ pos = PosNone

\* The runtime keeps the model r that Update returned; hist.fast counts the
\* batches appended since applyFilters last ran
Keep(r, batch) ==
    /\ m' = Stored(r)
    /\ hist' = [hist EXCEPT !.fast = IF r.applied THEN 0 ELSE @ + batch,
                            !.copied = IF r.copied
                                       THEN <<m.selectionStart, m.selectionEnd>>
                                       ELSE @,
                            !.busy = /\ batch > 0
                                     /\ (m.inputMode # ModeNormal \/ m.showHelp)]

\* A LogChunkMsg with one of batches arrives
StreamBatchOf(batches) ==
    /\ m.streamer
    /\ \E lines \in batches :
          /\ Len(m.originalLines) + Len(lines) <= MaxRaw
          /\ Keep(Update(m, LogChunkMsg(lines, FALSE)), 1)
    /\ UNCHANGED <<prod, chan, rt, fs, pos>>

\* A FileChangeMsg with the lines appended to the file arrives
FileChangeOf(mm, content) ==
    FileChangeMsg(content, mm.fileSize + ByteLen(content), FALSE)

FileGrowthOf(batches) ==
    /\ ~m.streamer
    /\ \E lines \in batches :
          /\ Len(m.originalLines) + Len(lines) <= MaxRaw
          /\ Keep(Update(m, FileChangeOf(m, JoinLines(lines))), 1)
    /\ UNCHANGED <<prod, chan, rt, fs, pos>>

\* The terminal is resized to one of sizes
ResizeTo(sizes) ==
    /\ \E sz \in sizes : Keep(Update(m, WindowSizeMsg(sz)), 0)
    /\ UNCHANGED <<prod, chan, rt, fs, pos>>

\* One of keys is pressed
KeyPressOf(keys) ==
    /\ \E key \in keys :
          \E val \in (IF key = "enter" THEN InputValues(m.inputMode) ELSE {<<>>}) :
             Keep(Update(m, KeyMsg(key, val)), 0)
    /\ UNCHANGED <<prod, chan, rt, fs, pos>>

\* A mouse event arrives
MouseOf(events) ==
    /\ \E ev \in events : Keep(Update(m, MouseMsg(ev)), 0)
    /\ UNCHANGED <<prod, chan, rt, fs, pos>>

\* The runtime renders: View() fills the layout cache
RenderView ==
    /\ m.layoutCache # ViewCache(m)
    /\ m' = [m EXCEPT !.layoutCache = ViewCache(m)]
    /\ UNCHANGED <<hist, prod, chan, rt, fs, pos>>

\* The runtime renders a ready model: View() takes the visible lines, or
\* panics and the program ends
RenderWindow ==
    /\ m.ready
    /\ ~m.showHelp
    /\ ~hist.crashed
    /\ IF ViewPanics(m)
       THEN /\ hist' = [hist EXCEPT !.crashed = TRUE]
            /\ UNCHANGED m
       ELSE /\ hist' = [hist EXCEPT !.shown = VisibleLines(m)]
            /\ m' = [m EXCEPT !.layoutCache = ViewCache(m)]
    /\ UNCHANGED <<prod, chan, rt, fs, pos>>

----------------------------------------------------------------------------
(* IngestSpec: lines arrive in every split into batches, from the stream   *)
(* or from the watched file, while the user toggles two filters.           *)

IngestStores == SeqsOf(LineUniverse, 0, 1)
IngestBatches == SeqsOf(LineUniverse, 1, 2)
IngestKeys == {"z", "1"}

IngestInit == UIInit(IngestStores, BOOLEAN)
IngestStream == StreamBatchOf(IngestBatches)
IngestFile == FileGrowthOf(IngestBatches)
IngestKey == KeyPressOf(IngestKeys)
IngestNext == IngestStream \/ IngestFile \/ IngestKey

IngestSpec == IngestInit /\ [][IngestNext]_vars

----------------------------------------------------------------------------
(* ViewSpec: the wrapped view with its layout cache, bookmarks and a mouse *)
(* selection, while lines arrive.                                          *)

ViewStores == {<<L_error, L_ind>>}
ViewBatches == {<<L_ind>>}
ViewKeys == {"w", "z", "m"}
ViewSizes == {[width |-> 4, height |-> 8]}
ViewClicks ==
    {[X |-> 4, Y |-> 3, action |-> "press", button |-> "left"],
     [X |-> 3, Y |-> 4, action |-> "release", button |-> "left"]}

ViewInit == UIInit(ViewStores, BOOLEAN)
ViewStream == StreamBatchOf(ViewBatches)
ViewFile == FileGrowthOf(ViewBatches)
ViewResize == ResizeTo(ViewSizes)
ViewKey == KeyPressOf(ViewKeys)
ViewMouse == MouseOf(ViewClicks)
ViewNext ==
    ViewStream \/ ViewFile \/ ViewResize \/ ViewKey \/ ViewMouse \/ RenderView

ViewSpec == ViewInit /\ [][ViewNext]_vars

----------------------------------------------------------------------------
(* ScrollSpec: scrolling and follow mode while lines arrive and the        *)
(* terminal is resized.                                                    *)

ScrollStores == {<<L_error, L_ind>>}
ScrollBatches == {<<L_ind>>, <<L_error, L_tab>>}
ScrollKeys == {"up", "down", "pgdown", "home", "end", "f", "z"}
ScrollSizes ==
    {[width |-> 9, height |-> 6], [width |-> 9, height |-> 7],
     [width |-> 9, height |-> 8]}
ScrollWheel ==
    {[X |-> 0, Y |-> 3, action |-> "press", button |-> "wheelup"],
     [X |-> 0, Y |-> 3, action |-> "press", button |-> "wheeldown"]}

ScrollInit == UIInit(ScrollStores, BOOLEAN)
ScrollStream == StreamBatchOf(ScrollBatches)
ScrollFile == FileGrowthOf(ScrollBatches)
ScrollResize == ResizeTo(ScrollSizes)
ScrollKey == KeyPressOf(ScrollKeys)
ScrollMouse == MouseOf(ScrollWheel)
ScrollNext ==
    ScrollStream \/ ScrollFile \/ ScrollResize \/ ScrollKey \/ ScrollMouse

ScrollSpec == ScrollInit /\ [][ScrollNext]_vars

----------------------------------------------------------------------------
(* SearchSpec: the text and regex filter typed into the filter input.      *)

SearchStores == {<<L_error, L_ind>>}
SearchBatches == {<<L_ind>>, <<L_error>>}
SearchKeys == {"R", "/", "enter", "esc", "1"}

SearchInit == UIInit(SearchStores, BOOLEAN)
SearchStream == StreamBatchOf(SearchBatches)
SearchFile == FileGrowthOf(SearchBatches)
SearchKey == KeyPressOf(SearchKeys)
SearchNext == SearchStream \/ SearchFile \/ SearchKey

SearchSpec == SearchInit /\ [][SearchNext]_vars

----------------------------------------------------------------------------
(* StreamSpec: the Line Batcher.  The goroutine of NewStreamer reads the   *)
(* source, prod.lines, line by line; after the last line the source ends   *)
(* (prod.end = "eof"), fails ("error") or stays open and silent ("open").  *)
(* chan is the pair of unbuffered channels: chan.lines and chan.err hold   *)
(* the values whose senders are blocked.  rt is the runtime's side: the    *)
(* armed stream wait and the messages on their way to Update.              *)

StreamLines == {L_error, L_tab}
StreamStores == {<<>>, <<L_ind>>}
StreamKeys == {"w"}

\* The flush test with the threshold off by one
FlushDue_Late(batch, elapsed) == Len(batch) > BatchLines \/ elapsed

\* NewStreamer, line 41: "Flush if batch is big enough or time passed"
FlushDue(batch, elapsed) == Len(batch) >= BatchLines \/ elapsed

\* The last batch is never flushed
FinalFlush_Never(batch) == FALSE

\* NewStreamer, line 49: "Flush remaining"
FinalFlush(batch) == Len(batch) > 0

\* The scanner's error is ignored
ErrPending_Ignored(p) == FALSE

\* NewStreamer, line 53: scanner.Err() is not nil
ErrPending(p) == p.end = "error"

\* A channel with a buffer: the send returns at once
Handed_Buffered(ch) == TRUE

\* A send on the unbuffered s.lines returns when a receiver has taken the
\* batch
Handed(ch) == ch.lines = <<>>

StreamInit ==
    /\ \E lines \in StreamStores :
          /\ m = Stored(InitialModel(lines, TRUE))
          /\ hist = [HistInit EXCEPT !.init = lines]
    /\ \E src \in SeqsOf(StreamLines, 0, MaxSource) :
         \E end \in {"eof", "error", "open"} :
            prod = [pc |-> "scan", lines |-> src, end |-> end, pos |-> 0,
                    batch |-> <<>>, elapsed |-> FALSE]
    /\ chan = ChanIdle
    /\ rt = [armed |-> TRUE, msgs |-> <<>>, ended |-> FALSE]
    /\ fs = FsIdle
    /\ pos = PosNone

\* The producer after the append of line 38: it sends the batch when the
\* flush is due
Scanned(batch) ==
    IF FlushDue(batch, prod.elapsed)
    THEN /\ prod' = [prod EXCEPT !.pos = @ + 1, !.batch = batch, !.pc = "send"]
         /\ chan' = [chan EXCEPT !.lines = Append(@, batch)]
    ELSE /\ prod' = [prod EXCEPT !.pos = @ + 1, !.batch = batch]
         /\ UNCHANGED chan

\* NewStreamer, lines 37-42: Scan returns a line
ProducerScan ==
    /\ prod.pc = "scan"
    /\ prod.pos < Len(prod.lines)
    /\ Scanned(Append(prod.batch, prod.lines[prod.pos + 1]))
    /\ UNCHANGED <<m, hist, rt, fs, pos>>

\* NewStreamer, lines 42-44: the send has returned
ProducerResume ==
    /\ prod.pc = "send"
    /\ Handed(chan)
    /\ prod' = [prod EXCEPT !.batch = <<>>, !.elapsed = FALSE, !.pc = "scan"]
    /\ UNCHANGED <<m, hist, chan, rt, fs, pos>>

\* NewStreamer, lines 37 and 49-51: Scan returns false, the rest is sent
ProducerLoopEnd ==
    /\ prod.pc = "scan"
    /\ prod.pos = Len(prod.lines)
    /\ prod.end # "open"
    /\ IF FinalFlush(prod.batch)
       THEN /\ prod' = [prod EXCEPT !.pc = "sendLast"]
            /\ chan' = [chan EXCEPT !.lines = Append(@, prod.batch)]
       ELSE /\ prod' = [prod EXCEPT !.pc = "checkErr"]
            /\ UNCHANGED chan
    /\ UNCHANGED <<m, hist, rt, fs, pos>>

\* NewStreamer, line 50: the send of the rest has returned
ProducerLastSent ==
    /\ prod.pc = "sendLast"
    /\ Handed(chan)
    /\ prod' = [prod EXCEPT !.batch = <<>>, !.pc = "checkErr"]
    /\ UNCHANGED <<m, hist, chan, rt, fs, pos>>

\* NewStreamer, lines 53-55: the read error is sent
ProducerCheckErr ==
    /\ prod.pc = "checkErr"
    /\ IF ErrPending(prod)
       THEN /\ prod' = [prod EXCEPT !.pc = "sendErr"]
            /\ chan' = [chan EXCEPT !.err = <<TRUE>>]
       ELSE /\ prod' = [prod EXCEPT !.pc = "close"]
            /\ UNCHANGED chan
    /\ UNCHANGED <<m, hist, rt, fs, pos>>

\* NewStreamer, line 54: the send of the error has returned
ProducerErrSent ==
    /\ prod.pc = "sendErr"
    /\ chan.err = <<>>
    /\ prod' = [prod EXCEPT !.pc = "close"]
    /\ UNCHANGED <<m, hist, chan, rt, fs, pos>>

\* NewStreamer, line 57: close(s.lines)
ProducerCloseLines ==
    /\ prod.pc = "close"
    /\ prod' = [prod EXCEPT !.pc = "closeErr"]
    /\ chan' = [chan EXCEPT !.linesClosed = TRUE]
    /\ UNCHANGED <<m, hist, rt, fs, pos>>

\* NewStreamer, line 58: close(s.err)
ProducerCloseErr ==
    /\ prod.pc = "closeErr"
    /\ prod' = [prod EXCEPT !.pc = "done"]
    /\ chan' = [chan EXCEPT !.errClosed = TRUE]
    /\ UNCHANGED <<m, hist, rt, fs, pos>>

\* Time passes: more than the flush interval since lastSend
Tick ==
    /\ prod.pc \in {"scan", "send"}
    /\ ~prod.elapsed
    /\ prod' = [prod EXCEPT !.elapsed = TRUE]
    /\ hist' = [hist EXCEPT !.timed = TRUE]
    /\ UNCHANGED <<m, chan, rt, fs, pos>>

\* WaitForStream, lines 68-72: the select receives a batch
WaitTakesLines ==
    /\ rt.armed
    /\ chan.lines # <<>>
    /\ rt' = [rt EXCEPT !.armed = FALSE,
                        !.msgs = Append(@, LogChunkMsg(Head(chan.lines), FALSE))]
    /\ chan' = [chan EXCEPT !.lines = Tail(@)]
    /\ hist' = [hist EXCEPT !.sizes = Append(@, Len(Head(chan.lines)))]
    /\ UNCHANGED <<m, prod, fs, pos>>

\* WaitForStream, lines 73-77: the select receives the error
WaitTakesErr ==
    /\ rt.armed
    /\ chan.err # <<>>
    /\ rt' = [rt EXCEPT !.armed = FALSE,
                        !.msgs = Append(@, LogChunkMsg(<<>>, TRUE))]
    /\ chan' = [chan EXCEPT !.err = <<>>]
    /\ UNCHANGED <<m, hist, prod, fs, pos>>

\* WaitForStream, lines 69-71 and 74-76: a channel is closed, the command
\* returns nil and the runtime calls nothing
WaitReturnsNil ==
    /\ rt.armed
    /\ \/ chan.linesClosed /\ chan.lines = <<>>
       \/ chan.errClosed /\ chan.err = <<>>
    /\ rt' = [rt EXCEPT !.armed = FALSE, !.ended = TRUE]
    /\ UNCHANGED <<m, hist, prod, chan, fs, pos>>

\* The runtime keeps the model r that Update returned for msg and starts
\* the commands it returned
Handled(r, msg) ==
    /\ m' = Stored(r)
    /\ rt' = [rt EXCEPT !.msgs = Tail(@),
                        !.armed = \E i \in 1..Len(r.cmds) :
                                     r.cmds[i] = "WaitForStream"]
    /\ hist' = [hist EXCEPT
                  !.errs = IF msg.err THEN @ + 1 ELSE @,
                  !.rearmed = IF /\ msg.err \/ hist.errs > 0
                                 /\ \E i \in 1..Len(r.cmds) :
                                       r.cmds[i] = "WaitForStream"
                              THEN @ + 1 ELSE @]

\* The runtime hands the message of the stream wait to Update
RuntimeUpdate ==
    /\ rt.msgs # <<>>
    /\ Handled(Update(m, Head(rt.msgs)), Head(rt.msgs))
    /\ UNCHANGED <<prod, chan, fs, pos>>

StreamKey == KeyPressOf(StreamKeys)

StreamNext ==
    \/ ProducerScan \/ ProducerResume \/ ProducerLoopEnd \/ ProducerLastSent
    \/ ProducerCheckErr \/ ProducerErrSent \/ ProducerCloseLines
    \/ ProducerCloseErr \/ Tick
    \/ WaitTakesLines \/ WaitTakesErr \/ WaitReturnsNil \/ RuntimeUpdate
    \/ StreamKey

StreamSpec == StreamInit /\ [][StreamNext]_vars

\* The goroutines are scheduled, time passes, the runtime runs its loop and
\* the user keeps typing.  A source that is open and silent yields nothing:
\* ProducerScan and ProducerLoopEnd are then not enabled.
StreamFairness ==
    /\ WF_vars(ProducerScan) /\ WF_vars(ProducerResume)
    /\ WF_vars(ProducerLoopEnd) /\ WF_vars(ProducerLastSent)
    /\ WF_vars(ProducerCheckErr) /\ WF_vars(ProducerErrSent)
    /\ WF_vars(ProducerCloseLines) /\ WF_vars(ProducerCloseErr)
    /\ WF_vars(Tick)
    /\ WF_vars(WaitTakesLines) /\ WF_vars(WaitTakesErr)
    /\ WF_vars(WaitReturnsNil) /\ WF_vars(RuntimeUpdate)
    /\ WF_vars(StreamKey)

FairStreamSpec == StreamSpec /\ StreamFairness

----------------------------------------------------------------------------
(* WatchSpec: the Growth Monitor.  A writer appends to the watched file,   *)
(* the watcher queues write events, the WaitForFileChange command in       *)
(* flight turns one event into a FileChangeMsg, and Update arms the next   *)
(* command with the offset it then holds.                                  *)

MaxFailures == 2

WatchLines == {L_error, L_ind}
WatchStores == SeqsOf(WatchLines, 0, 1)
WatchChunks == {JoinLines(c) : c \in SeqsOf(WatchLines, 1, 2)}
WatchKeys == {"z"}

NewOffset_Stale(offset, content) == offset

\* readNewContent, line 88: newOffset := offset + int64(len(content))
NewOffset(offset, content) == offset + ByteLen(content)

\* readNewContent, lines 78-83: Seek(offset, 0) and io.ReadAll
ReadFrom(file, offset) == DropBytes(file, offset)

\* readNewContent(filename, offset) when the file opens and reads
readNewContent(file, offset) ==
    FileChangeMsg(ReadFrom(file, offset),
                  NewOffset(offset, ReadFrom(file, offset)), FALSE)

\* FileChangeMsg{Error: err}
FileErrorMsg == FileChangeMsg(<<>>, 0, TRUE)

\* The lines a file holds
FileLines(file) == splitIncomingContent(file)

\* root.go read lines from the file; InitialModel then took the size of the
\* file, which may have grown in between, and Init armed the first wait
WatchInit ==
    /\ \E lines \in WatchStores :
         \E late \in {<<>>} \cup WatchChunks :
            /\ Len(lines) + Len(FileLines(late)) <= MaxRaw - 1
            /\ m = [Stored(InitialModel(lines, FALSE))
                      EXCEPT !.fileSize = ByteLen(JoinLines(lines) \o late)]
            /\ hist = [HistInit EXCEPT !.init = lines]
            /\ fs = [FsIdle EXCEPT !.file = JoinLines(lines) \o late,
                                   !.base = ByteLen(JoinLines(lines) \o late),
                                   !.armed = TRUE,
                                   !.offset = ByteLen(JoinLines(lines) \o late)]
    /\ prod = ProdIdle
    /\ chan = ChanIdle
    /\ rt = RtIdle
    /\ pos = PosNone

\* A writer appends a chunk to the file; the watcher gets a write event,
\* which the kernel may merge with one still queued
FileAppend ==
    /\ \E chunk \in WatchChunks :
          /\ Len(FileLines(fs.file)) + Len(FileLines(chunk)) <= MaxRaw
          /\ \E n \in {fs.events + 1, IF fs.events = 0 THEN 1 ELSE fs.events} :
                fs' = [fs EXCEPT !.file = @ \o chunk, !.events = n]
    /\ UNCHANGED <<m, hist, prod, chan, rt, pos>>

\* WaitForFileChange, lines 44-51: a write event of the file comes and the
\* command returns what readNewContent reads from its offset
WaitReadsGrowth ==
    /\ fs.armed /\ fs.events > 0
    /\ fs' = [fs EXCEPT !.events = @ - 1, !.armed = FALSE,
                        !.msgs = <<readNewContent(fs.file, fs.offset)>>]
    /\ UNCHANGED <<m, hist, prod, chan, rt, pos>>

\* WaitForFileChange, lines 48-50, and readNewContent, lines 72-86: the
\* event comes and the file cannot be opened, sought or read
WaitReadFails ==
    /\ fs.armed /\ fs.events > 0
    /\ fs.failed < MaxFailures
    /\ fs' = [fs EXCEPT !.events = @ - 1, !.armed = FALSE,
                        !.msgs = <<FileErrorMsg>>]
    /\ UNCHANGED <<m, hist, prod, chan, rt, pos>>

\* WaitForFileChange, lines 61-65: the watcher reports an error
WaitWatcherError ==
    /\ fs.armed
    /\ fs.failed < MaxFailures
    /\ fs' = [fs EXCEPT !.armed = FALSE, !.msgs = <<FileErrorMsg>>]
    /\ UNCHANGED <<m, hist, prod, chan, rt, pos>>

\* The runtime after Update returned r for the FileChangeMsg msg: the
\* command Update returned is in flight, built with r.fileSize (line 243)
WatchHandled(r, msg) ==
    /\ Keep(r, 1)
    /\ fs' = [fs EXCEPT !.msgs = <<>>,
                        !.armed = \E i \in 1..Len(r.cmds) :
                                     r.cmds[i] = "WaitForFileChange",
                        !.offset = r.fileSize,
                        !.got = IF msg.err THEN @ ELSE @ \o msg.content,
                        !.failed = IF msg.err THEN @ + 1 ELSE @]

\* The runtime hands the FileChangeMsg to Update
WatchUpdate ==
    /\ fs.msgs # <<>>
    /\ WatchHandled(Update(m, Head(fs.msgs)), Head(fs.msgs))
    /\ UNCHANGED <<prod, chan, rt, pos>>

WatchKey == KeyPressOf(WatchKeys)

WatchNext ==
    \/ FileAppend
    \/ WaitReadsGrowth
    \/ WaitReadFails
    \/ WaitWatcherError
    \/ WatchUpdate
    \/ WatchKey

WatchSpec == WatchInit /\ [][WatchNext]_vars

----------------------------------------------------------------------------
(* SelectSpec: a mouse selection over a loaded file, kept or cleared by    *)
(* the keys and the resizes that follow.                                   *)

SelectStores == {<<L_error, L_ind>>}
SelectKeys == {"w", "z", "1", "R", "esc"}
SelectFilterKeys == {"z", "1", "R", "esc"}
SelectSizes == {[width |-> 9, height |-> 8], [width |-> 6, height |-> 8]}
SelectClicks ==
    {[X |-> 4, Y |-> 3, action |-> "press", button |-> "left"],
     [X |-> 5, Y |-> 4, action |-> "motion", button |-> "left"],
     [X |-> 5, Y |-> 4, action |-> "release", button |-> "left"]}

SelectInit == UIInit(SelectStores, {FALSE})
SelectResize == ResizeTo(SelectSizes)
SelectKey == KeyPressOf(SelectKeys)
SelectMouse == MouseOf(SelectClicks)
SelectNext == SelectResize \/ SelectKey \/ SelectMouse

SelectSpec == SelectInit /\ [][SelectNext]_vars

----------------------------------------------------------------------------
(* ResolveSpec: the Coordinate Resolver.  resolvePos is called on a view   *)
(* that the keys, the resizes and the renders before it have wrapped and   *)
(* bookmarked.  FlatSpec: the same in the unwrapped view, scrolled down    *)
(* and shifted right.                                                      *)

MaxProbeX == 11
MaxProbeY == 4
MaxXOffset == 10

L_hard  == <<"a", "b", "c", "d", "e", "f", "g">>
L_words == <<"A", " ", "B", " ", "C">>

ResolveStores ==
    {<<L_error, L_hard>>, <<L_hard, L_words>>, <<L_words, L_hard>>}
ResolveKeys == {"w", "m"}
ResolveSizes ==
    {[width |-> 3, height |-> 8], [width |-> 10, height |-> 8]}
ProbeX == 0..MaxProbeX
ProbeY == 0..MaxProbeY
\* The coordinates the calls of ResolveSpec are made at
CallX == {3}
CallY == {0, 1, MaxProbeY}

\* resolvePos(x, y) returned r: the map it filled is the model's
Resolved(r, x, y) ==
    /\ m' = [m EXCEPT !.layoutCache = r.cache]
    /\ pos' = [called |-> TRUE, x |-> x, y |-> y, line |-> r.line,
               col |-> r.col]

\* (m Model) resolvePos is called at one of the coordinates
ResolveAt(xs, ys) ==
    /\ \E x \in xs : \E y \in ys : Resolved(resolvePos(m, x, y), x, y)
    /\ UNCHANGED <<hist, prod, chan, rt, fs>>

ResolveInit == UIInit(ResolveStores, {FALSE})
ResolveResize == ResizeTo(ResolveSizes)
ResolveKey == KeyPressOf(ResolveKeys)
ResolveProbe == ResolveAt(CallX, CallY)
ResolveNext == ResolveResize \/ ResolveKey \/ RenderView \/ ResolveProbe

ResolveSpec == ResolveInit /\ [][ResolveNext]_vars

\* A line that carries colour control sequences of its own
L_ansi  == <<SGR_Error, "H", "i", SGR_Reset, " ", "x">>

FlatStores == {<<L_hard, L_ansi, L_tab>>}
FlatKeys == {"m", "down", "right"}
FlatSizes == {[width |-> 10, height |-> 7]}

FlatInit == UIInit(FlatStores, {FALSE})
FlatResize == ResizeTo(FlatSizes)
FlatKey == KeyPressOf(FlatKeys) /\ m'.xOffset <= MaxXOffset
FlatProbe == ResolveAt(CallX, CallY)
FlatNext == FlatResize \/ FlatKey \/ FlatProbe

FlatSpec == FlatInit /\ [][FlatNext]_vars

----------------------------------------------------------------------------
(* FoldSpec: applyFilters over every store of up to MaxFold lines, plain   *)
(* and indented, while stack-trace folding and the ERROR level are         *)
(* toggled.                                                                *)

\* Largest number of lines of a store of FoldSpec
MaxFold == 3
FoldLineSet == {L_error, L_ind, L_tab}
FoldStores == SeqsOf(FoldLineSet, 0, MaxFold)
FoldKeys == {"z", "1"}

FoldInit == UIInit(FoldStores, {FALSE})
FoldKey == KeyPressOf(FoldKeys)
FoldNext == FoldKey

FoldSpec == FoldInit /\ [][FoldNext]_vars

----------------------------------------------------------------------------
(* LevelSpec: applyFilters over stores of lines with one level marker, two *)
(* markers, a lower-case marker and none, under every combination of the   *)
(* four visibility flags.                                                  *)

\* Largest number of lines of a store of LevelSpec
MaxLevelLines == 2
L_warn  == Str_WARN \o <<" ", "x">>
L_info  == Str_INFO
L_debug == <<"x">> \o Str_DEBUG
L_two   == Str_INFO \o <<" ">> \o Str_ERROR
L_lower == <<"e", "r", "r", "o", "r">>
LevelLineSet == {L_error, L_warn, L_info, L_debug, L_two, L_lower, L_ind}
LevelStores == SeqsOf(LevelLineSet, 0, MaxLevelLines)
LevelKeys == {"1", "2", "3", "4"}

LevelInit == UIInit(LevelStores, {FALSE})
LevelKey == KeyPressOf(LevelKeys)
LevelNext == LevelKey

LevelSpec == LevelInit /\ [][LevelNext]_vars

----------------------------------------------------------------------------
(* DateSpec: the two date bounds are typed into their inputs over stores   *)
(* of lines stamped before, at and after 2023-01-03 00:00:00, a line whose *)
(* date is followed by text, a line with a date that is not of the         *)
(* calendar, and a line with no date.                                      *)

\* Largest number of lines of a store of DateSpec
MaxDateLines == 2
\* "x 2023-01-03": the date ends the line
L_at      == <<"x", " ">> \o D_0103
\* "2023-01-03T00:00:01"
L_after   == D_0103 \o <<"T", "0", "0", ":", "0", "0", ":", "0", "1">>
\* "2023-01-02 x": dateRegex takes the space with the date
L_dated   == SubSeq(L_date, 1, 10) \o <<" ", "x">>
\* "2023-13-45 x"
L_nodate  == D_bad \o <<" ", "x">>
DateLineSet == {L_date, L_at, L_after, L_dated, L_nodate, L_ind}
DateStores == SeqsOf(DateLineSet, 0, MaxDateLines)
DateKeys == {"[", "]", "enter"}

DateInit == UIInit(DateStores, {FALSE})
DateKey == KeyPressOf(DateKeys)
DateNext == DateKey

DateSpec == DateInit /\ [][DateNext]_vars

----------------------------------------------------------------------------
(* TextSpec: a pattern is typed into the filter input and regex mode is    *)
(* toggled, over stores of lines that hold the pattern in lower case, in   *)
(* upper case and not at all.                                              *)

\* Largest number of lines of a store of TextSpec
MaxTextLines == 2
L_upper == <<"A", "T", " ", "x">>
TextLineSet == {L_error, L_ind, L_upper}
TextStores == SeqsOf(TextLineSet, 0, MaxTextLines)
TextKeys == {"R", "/", "enter", "esc"}

TextInit == UIInit(TextStores, {FALSE})
TextKey == KeyPressOf(TextKeys)
TextNext == TextKey

TextSpec == TextInit /\ [][TextNext]_vars

----------------------------------------------------------------------------
(* WindowSpec: the view is scrolled and the terminal resized, down to      *)
(* fewer rows than the header and the footer take, and rendered.           *)

WindowStores == {<<L_error, L_ind, L_tab>>}
WindowBatches == {<<L_ind>>}
WindowKeys == {"up", "down", "end"}
WindowSizes == {[width |-> 9, height |-> h] : h \in {5, 6, 7, 8}}

WindowInit == UIInit(WindowStores, BOOLEAN)
WindowStream == ~hist.crashed /\ StreamBatchOf(WindowBatches)
WindowResize == ~hist.crashed /\ ResizeTo(WindowSizes)
WindowKey == ~hist.crashed /\ KeyPressOf(WindowKeys)
WindowNext == WindowStream \/ WindowResize \/ WindowKey \/ RenderWindow

WindowSpec == WindowInit /\ [][WindowNext]_vars

----------------------------------------------------------------------------
(* JumpSpec: a time is typed into the jump-to-time input over stores of    *)
(* stamped and unstamped lines, in a window of one or two rows.            *)

\* Largest number of lines of a store of JumpSpec
MaxJumpLines == 3
JumpLineSet == {L_date, L_at, L_ind}
JumpStores == SeqsOf(JumpLineSet, 2, MaxJumpLines)
JumpKeys == {"J", "enter", "down"}
JumpSizes == {[width |-> 9, height |-> 7], [width |-> 9, height |-> 8]}

JumpInit == UIInit(JumpStores, {FALSE})
JumpResize == ResizeTo(JumpSizes)
JumpKey == KeyPressOf(JumpKeys)
JumpNext == JumpResize \/ JumpKey \/ RenderWindow

JumpSpec == JumpInit /\ [][JumpNext]_vars

----------------------------------------------------------------------------
(* EscSpec: Esc is pressed with and without a selection, over a scrolled,  *)
(* wrapped, bookmarked and filtered view.                                  *)

EscStores == {<<L_error, L_date, L_ind>>}
EscKeys == {"esc", "m", "down", "w", "/", "[", "enter"}
EscSizes == {[width |-> 9, height |-> 7]}
EscClicks == {[X |-> 4, Y |-> 3, action |-> "press", button |-> "left"]}

EscInit == UIInit(EscStores, {FALSE})
EscResize == ResizeTo(EscSizes)
EscKey == KeyPressOf(EscKeys)
EscMouse == MouseOf(EscClicks)
EscNext == EscResize \/ EscKey \/ EscMouse \/ RenderView

EscSpec == EscInit /\ [][EscNext]_vars

----------------------------------------------------------------------------
(* ConsistSpec: lines arrive from the stream or the watched file while a   *)
(* level is hidden, a pattern or a start date is set, or folding is on.    *)

ConsistStores == {<<L_date>>}
ConsistBatches == {<<L_ind>>, <<L_tab, L_at>>}
ConsistKeys == {"z", "1", "/", "[", "enter", "esc"}
ConsistSizes == {[width |-> 9, height |-> 7]}

ConsistInit == UIInit(ConsistStores, BOOLEAN)
ConsistStream == StreamBatchOf(ConsistBatches)
ConsistFile == FileGrowthOf(ConsistBatches)
ConsistResize == ResizeTo(ConsistSizes)
ConsistKey == KeyPressOf(ConsistKeys)
ConsistNext == ConsistStream \/ ConsistFile \/ ConsistResize \/ ConsistKey

ConsistSpec == ConsistInit /\ [][ConsistNext]_vars
----------------------------------------------------------------------------
(* CopySpec: a selection is dragged forwards or backwards over two lines,  *)
(* to columns inside and outside the lines, and copied with "y", or with   *)
(* "ctrl+y" while an input is open.                                        *)

CopyStores == {<<L_error, L_ansi, L_ind>>}
CopyKeys == {"y", "ctrl+y", "/", "esc"}
CopySizes == {[width |-> 20, height |-> 9]}
CopyClicks ==
    {[X |-> x, Y |-> y, action |-> a, button |-> "left"] :
        x \in {3, 5, 12}, y \in {3, 5}, a \in {"press", "motion"}}

CopyInit == UIInit(CopyStores, {FALSE})
CopyResize == ResizeTo(CopySizes)
CopyKey == KeyPressOf(CopyKeys)
CopyMouse == MouseOf(CopyClicks)
CopyNext == CopyResize \/ CopyKey \/ CopyMouse

CopySpec == CopyInit /\ [][CopyNext]_vars
----------------------------------------------------------------------------
(* LoopSpec: batches arrive from the stream and from the watched file      *)
(* while the user opens and closes the inputs and the help.                *)

LoopStores == {<<L_error>>}
LoopBatches == {<<L_ind>>}
LoopKeys == {"/", "[", "]", "J", "?", "enter", "esc"}

LoopInit == UIInit(LoopStores, BOOLEAN)
LoopStream == StreamBatchOf(LoopBatches)
LoopFile == FileGrowthOf(LoopBatches)
LoopKey == KeyPressOf(LoopKeys)
LoopNext == LoopStream \/ LoopFile \/ LoopKey

LoopSpec == LoopInit /\ [][LoopNext]_vars
----------------------------------------------------------------------------
(* TornSpec: the Growth Monitor on a file whose writer flushes in the      *)
(* middle of a line: a write may end without a newline and the next write  *)
(* carries the rest of the line.                                           *)

\* Largest number of bytes the writer appends to the watched file.
MaxTornBytes == 6

TornChunks == {<<"a", "b">>, <<"c", "\n">>, <<"d", "\n", "e">>}

\* A writer appends one of chunks to the file; the watcher gets a write
\* event, which the kernel may merge with one still queued
FileAppendOf(chunks) ==
    /\ \E chunk \in chunks :
          /\ Len(FileLines(fs.file)) + Len(FileLines(chunk)) <= MaxRaw
          /\ Len(fs.file) - fs.base + Len(chunk) <= MaxTornBytes
          /\ \E n \in {fs.events + 1, IF fs.events = 0 THEN 1 ELSE fs.events} :
                fs' = [fs EXCEPT !.file = @ \o chunk, !.events = n]
    /\ UNCHANGED <<m, hist, prod, chan, rt, pos>>

TornAppend == FileAppendOf(TornChunks)
TornNext == TornAppend \/ WaitReadsGrowth \/ WatchUpdate

TornSpec == WatchInit /\ [][TornNext]_vars
----------------------------------------------------------------------------
(* MarkSpec: bookmarks are toggled at the top line while the view is       *)
(* scrolled, filtered and grown, starting from a file that may be empty.   *)

MarkStores == SeqsOf({L_error, L_ind}, 0, 2)
MarkBatches == {<<L_ind>>}
MarkKeys == {"m", "n", "down", "1"}
MarkSizes == {[width |-> 9, height |-> 7]}

MarkInit == UIInit(MarkStores, BOOLEAN)
MarkStream == StreamBatchOf(MarkBatches)
MarkFile == FileGrowthOf(MarkBatches)
MarkResize == ResizeTo(MarkSizes)
MarkKey == KeyPressOf(MarkKeys)
MarkNext == MarkStream \/ MarkFile \/ MarkResize \/ MarkKey

MarkSpec == MarkInit /\ [][MarkNext]_vars
----------------------------------------------------------------------------
(* PressSpec: the left button is pressed on the rows of a wrapped view in  *)
(* which two lines take more rows than there are lines.                    *)

PressStores == {<<L_hard, L_words>>}
PressKeys == {"w", "m", "down"}
PressSizes == {[width |-> 3, height |-> 11], [width |-> 10, height |-> 11]}
PressClicks ==
    {[X |-> x, Y |-> y, action |-> a, button |-> "left"] :
        x \in {0, 1}, y \in {3, 4, 5, 6}, a \in {"press", "release"}}

PressInit == UIInit(PressStores, {FALSE})
PressResize == ResizeTo(PressSizes)
PressKey == KeyPressOf(PressKeys)
PressMouse == MouseOf(PressClicks)
PressNext == PressResize \/ PressKey \/ PressMouse

PressSpec == PressInit /\ [][PressNext]_vars
----------------------------------------------------------------------------
(* FrameSpec: batches arrive under the default filter settings in a view   *)
(* that is wrapped, scrolled, resized, bookmarked, selected in and         *)
(* rendered.                                                               *)

FrameStores == {<<L_error, L_ind>>}
FrameBatches == {<<L_tab>>}
FrameKeys == {"m", "down", "w"}
FrameSizes == {[width |-> 9, height |-> 7], [width |-> 9, height |-> 9]}
FrameClicks == {[X |-> 4, Y |-> 3, action |-> "press", button |-> "left"]}

FrameInit == UIInit(FrameStores, BOOLEAN)
FrameStream == StreamBatchOf(FrameBatches)
FrameFile == FileGrowthOf(FrameBatches)
FrameResize == ResizeTo(FrameSizes)
FrameKey == KeyPressOf(FrameKeys)
FrameMouse == MouseOf(FrameClicks)
FrameNext ==
    \/ FrameStream
    \/ FrameFile
    \/ FrameResize
    \/ FrameKey
    \/ FrameMouse
    \/ RenderView

FrameSpec == FrameInit /\ [][FrameNext]_vars







----------------------------------------------------------------------------
(* The properties.                                                         *)

\* C1: whenever the filter settings are the default permissive ones and
\* folding is off, the filtered lines the incremental appends have built
\* are exactly what a full recomputation from the raw lines gives, whatever
\* the initial store and however the lines were split into batches.
C1_FastPathEqualsRefilter ==
    canFastAppendWithoutRefilter(m)
        => m.filteredLines = applyFilters(m, TRUE).filteredLines

\* Two batches in a row went through the fast path, the last one ending in
\* a line with a tab
C1_Witness ==
    /\ canFastAppendWithoutRefilter(m)
    /\ hist.fast >= 2
    /\ Len(m.originalLines) >= 2
    /\ m.originalLines[Len(m.originalLines)] = L_tab
    /\ m.filteredLines[Len(m.filteredLines)] = ExpandTabs(L_tab)

\* What Update returns for the messages ViewSpec delivers in the state mm
ViewReturns(mm) ==
    {Update(mm, IF mm.streamer THEN LogChunkMsg(b, FALSE)
                ELSE FileChangeOf(mm, JoinLines(b))) : b \in ViewBatches}
    \cup {Update(mm, KeyMsg(k, <<>>)) : k \in ViewKeys}

\* C2: every Update call in which applyFilters ran, for a filter command
\* or for an append off the fast path, returns a model with no bookmark, no
\* selection and an empty layout cache.
C2_EveryRecomputeClears ==
    [][\A r \in ViewReturns(m) :
          (r.applied /\ m' = Stored(r))
              => /\ m'.bookmarks = {}
                 /\ m'.selectionStart = NoPoint
                 /\ m'.selectionEnd = NoPoint
                 /\ m'.layoutCache = EmptyCache]_vars

\* C3: every layout cache entry is the wrap, at the current width, of the
\* line now at its index with the line's current bookmark decoration, as
\* View or as resolvePos computes it.
C3_CacheCoherent ==
    \A i \in DOMAIN m.layoutCache :
       /\ i < Len(m.filteredLines)
       /\ m.layoutCache[i] \in {ViewParts(m, i), ResolveParts(m, i)}

\* C4: with regex mode on and a pattern that does not compile, no line is
\* in the filtered view.
C4_InvalidRegexMatchesNothing ==
    (/\ m.regexMode
     /\ m.filterText # <<>>
     /\ CompileRegex(m.filterText) = NoRegex)
        => m.filteredLines = <<>>

\* C5: the vertical offset is between 0 and the largest offset the
\* filtered view and the viewport height allow, after every Update.
C5_OffsetClamped == 0 <= m.yOffset /\ m.yOffset <= MaxOffset(m)

\* C6: every line the producer has read is eventually in the raw store,
\* also when the source then stays open and yields nothing more.
C6_EveryLineReadIsDelivered ==
    \A n \in 1..MaxSource :
       (prod.pos >= n) ~> (Len(m.originalLines) >= Len(hist.init) + n)

\* C7: no batch handed over is empty or larger than the threshold; as long
\* as the flush interval has not elapsed, every batch but the last has
\* exactly the threshold size, and a smaller last batch is the remainder
\* sent after the loop.
C7_ThresholdBatching ==
    /\ \A i \in 1..Len(hist.sizes) : hist.sizes[i] \in 1..BatchLines
    /\ ~hist.timed =>
          /\ \A i \in 1..(Len(hist.sizes) - 1) : hist.sizes[i] = BatchLines
          /\ (hist.sizes # <<>> /\ hist.sizes[Len(hist.sizes)] < BatchLines)
                => prod.pc \notin {"scan", "send"}
          /\ prod.pc = "done" =>
                Len(hist.sizes) * BatchLines \in
                    Len(prod.lines)..(Len(prod.lines) + BatchLines - 1)

\* More lines than the threshold, read within one flush interval, went out
\* as full batches and a remainder
C7_Witness ==
    /\ ~hist.timed
    /\ prod.pc = "done"
    /\ Len(prod.lines) > BatchLines
    /\ Len(hist.sizes) >= 2
    /\ hist.sizes[1] = BatchLines
    /\ hist.sizes[Len(hist.sizes)] < BatchLines

\* C8: once the stream wait has returned end-of-stream, the raw store is
\* the initial lines followed by the lines of the source, in order.
C8_LosslessOrdered ==
    rt.ended => m.originalLines = hist.init \o prod.lines

\* The stream has ended after full batches and a last partial one, on top
\* of initial lines
C8_Witness ==
    /\ rt.ended
    /\ hist.init # <<>>
    /\ Len(prod.lines) > BatchLines
    /\ prod.lines[1] # prod.lines[2]
    /\ hist.sizes[Len(hist.sizes)] < BatchLines
    /\ m.originalLines = hist.init \o prod.lines

\* C9 as stated: once the error event has been handled, no stream wait is
\* armed again.
C9_NoRearmAfterError == hist.errs > 0 => ~rt.armed

\* C9 amended: the error event reaches Update at most once, and exactly
\* once by the end of a failed stream; it comes after all lines of the
\* source are in the raw store and no batch follows it; Update arms the
\* stream wait once more for it, that wait can only return end-of-stream,
\* and after that no wait is armed.
C9_ErrorOnceThenEnd ==
    /\ hist.errs <= 1
    /\ hist.rearmed <= 1
    /\ (\E i \in 1..Len(rt.msgs) : rt.msgs[i].err) \/ hist.errs = 1
          => /\ m.originalLines = hist.init \o prod.lines
             /\ chan.lines = <<>>
             /\ \A i \in 1..Len(rt.msgs) : rt.msgs[i].lines = <<>>
    /\ hist.errs = 1 => chan.err = <<>> /\ rt.msgs = <<>>
    /\ rt.ended =>
          /\ ~rt.armed
          /\ rt.msgs = <<>>
          /\ (prod.end = "error") = (hist.errs = 1)

\* A source that gave lines and then failed: the error event was handled,
\* the wait armed for it returned end-of-stream
C9_Witness ==
    /\ prod.end = "error"
    /\ Len(prod.lines) >= 1
    /\ hist.errs = 1
    /\ hist.rearmed = 1
    /\ rt.ended

\* C10: at most one batch is parked at the handoff, and while one is, the
\* producer reads no line from the source.
C10_Backpressure ==
    [][/\ Len(chan.lines) <= 1
       /\ Len(chan'.lines) <= 1
       /\ chan.lines # <<>> => prod'.pos = prod.pos]_vars

\* A batch is parked, no wait is armed to take it, and the source has more
\* lines
C10_Witness ==
    /\ chan.lines # <<>>
    /\ ~rt.armed
    /\ prod.pc = "send"
    /\ prod.pos < Len(prod.lines)

\* C11: once Update has had a FileChangeMsg carrying an error, the monitor
\* is stopped: no WaitForFileChange command is in flight and none is issued.
C11_ErrorStopsMonitor == fs.failed > 0 => ~fs.armed

\* The bytes of the file from byte offset lo up to byte offset hi
FileBytes(lo, hi) == SubSeq(fs.file, lo + 1, hi)

\* C12: the successful messages tile the file from the offset of the first
\* wait: together they carried exactly the bytes from there up to the
\* stored offset, each in flight carries the bytes from the offset of its
\* wait up to its NewOffset, which is the end of the file when it is read,
\* the wait in flight starts at the stored offset, the raw store holds the
\* lines of those bytes in order, and the stored offset never decreases.
C12_DeltasTileTheFile ==
    /\ [](/\ fs.base <= m.fileSize /\ m.fileSize <= Len(fs.file)
          /\ fs.got = FileBytes(fs.base, m.fileSize)
          /\ m.originalLines = hist.init \o FileLines(fs.got)
          /\ (fs.armed \/ fs.msgs # <<>>) => fs.offset = m.fileSize
          /\ \A i \in 1..Len(fs.msgs) :
                ~fs.msgs[i].err =>
                   /\ fs.msgs[i].newOffset
                         = fs.offset + Len(fs.msgs[i].content)
                   /\ fs.msgs[i].content
                         = FileBytes(fs.offset, fs.msgs[i].newOffset))
    /\ [][/\ m'.fileSize >= m.fileSize
          /\ (fs.msgs = <<>> /\ fs'.msgs # <<>> /\ ~fs'.msgs[1].err)
                => fs'.msgs[1].newOffset = Len(fs.file)]_vars

\* Two successful messages have been handled, the second after a failed
\* one, and the store holds every line of the grown file
C12_Witness ==
    /\ fs.failed > 0
    /\ Len(FileLines(fs.got)) >= 2
    /\ m.fileSize = Len(fs.file)
    /\ m.fileSize > fs.base
    /\ fs.msgs = <<>>
    /\ fs.armed

\* What Update returns in the state mm for a key that changes the filter
\* settings or cancels
SelectKeyReturns(mm) == {Update(mm, KeyMsg(k, <<>>)) : k \in SelectFilterKeys}

\* What Update returns in the state mm for a resize
SelectResizeReturns(mm) == {Update(mm, WindowSizeMsg(sz)) : sz \in SelectSizes}

ResolveAtTop(mm) ==
    resolvePos(mm, IF mm.yOffset \in mm.bookmarks THEN 3 ELSE 0, 0)

\* C14: the "m" key on a line of the wrapped view removes the layout cache
\* entry of that line and no other entry, and a resolve made next on that
\* line wraps it with its new decoration: the column just after the
\* bookmark prefix (column 0 without a bookmark) gives character 0.
C14_ToggleDropsOneEntry ==
    [][(/\ m.wrap
        /\ m.yOffset < Len(m.filteredLines)
        /\ m' = Stored(Update(m, KeyMsg("m", <<>>))))
          => /\ m'.bookmarks # m.bookmarks
             /\ DOMAIN m'.layoutCache = (DOMAIN m.layoutCache) \ {m.yOffset}
             /\ \A i \in DOMAIN m'.layoutCache :
                   m'.layoutCache[i] = m.layoutCache[i]
             /\ ResolveAtTop(m').line = m'.yOffset
             /\ ResolveAtTop(m').col = 0
             /\ ResolveAtTop(m').cache[m'.yOffset]
                   = ResolveParts(m', m'.yOffset)]_vars

\* The top line has just been bookmarked in the wrapped view: its cache
\* entry is gone while the entry of the next line is still there
C14_Witness ==
    /\ m.wrap
    /\ 0 \in m.bookmarks
    /\ Len(m.filteredLines) >= 2
    /\ 0 \notin DOMAIN m.layoutCache
    /\ 1 \in DOMAIN m.layoutCache

\* The lines View renders in the wrapped view that the selection touches
SelectedVisible(mm) ==
    IF ~mm.ready \/ mm.showHelp \/ ~mm.wrap THEN {}
    ELSE {i \in ViewStart(mm)..(ViewEnd(mm) - 1) : LineSelected(mm, i)}

\* C15: in wrap mode View never takes a line the selection touches from
\* the layout cache (the line has no entry View could serve), and a render
\* stores no entry for such a line.
C15_SelectedLineRecomputed ==
    /\ [](\A i \in SelectedVisible(m) : i \notin DOMAIN m.layoutCache)
    /\ [][m' = [m EXCEPT !.layoutCache = ViewCache(m)]
             => \A i \in SelectedVisible(m) :
                   i \in DOMAIN m'.layoutCache
                      => /\ i \in DOMAIN m.layoutCache
                         /\ m'.layoutCache[i] = m.layoutCache[i]]_vars

\* The number of characters of line idx of the filtered view, control
\* sequences left out
PlainLen(mm, idx) == RuneCount(stripAnsi(LineAt(mm, idx)))

\* C16: at every screen coordinate, in both modes, resolvePos returns the
\* index of a line of the filtered view and a column between 0 and the
\* length of that line.
C16_ResolveInRange ==
    \A x \in ProbeX : \A y \in ProbeY :
       /\ resolvePos(m, x, y).line \in 0..(Len(m.filteredLines) - 1)
       /\ resolvePos(m, x, y).col >= 0
       /\ resolvePos(m, x, y).col
             <= PlainLen(m, resolvePos(m, x, y).line)

\* The model with no bookmark and with the control sequences taken out of
\* its lines
Undecorated(mm) ==
    [mm EXCEPT !.bookmarks = {},
               !.filteredLines = [i \in DOMAIN @ |-> stripAnsi(@[i])]]

\* C17: without wrap, resolvePos at visual (x, y) gives the line
\* yOffset + y and the column xOffset + x - 3, or 0 when that is negative,
\* whatever the scroll and horizontal offsets, and the same with and
\* without bookmarks and control sequences in the lines.
C17_NoWrapResolve ==
    ~m.wrap =>
       \A x \in ProbeX : \A y \in ProbeY :
          /\ resolvePos(m, x, y).line = m.yOffset + y
          /\ resolvePos(m, x, y).col
                = (IF m.xOffset + x - 3 < 0 THEN 0 ELSE m.xOffset + x - 3)
          /\ resolvePos(Undecorated(m), x, y).line = resolvePos(m, x, y).line
          /\ resolvePos(Undecorated(m), x, y).col = resolvePos(m, x, y).col

\* resolvePos was called in the unwrapped view, scrolled down and shifted
\* right, on a bookmarked line that carries control sequences
C17_Witness ==
    /\ pos.called
    /\ ~m.wrap
    /\ m.yOffset > 0
    /\ m.xOffset > 0
    /\ pos.line = m.yOffset + pos.y
    /\ pos.line \in m.bookmarks
    /\ pos.line < Len(m.filteredLines)
    /\ LineAt(m, pos.line) # stripAnsi(LineAt(m, pos.line))
    /\ pos.col = m.xOffset + pos.x - 3

\* The line at the top of the wrapped view, when there is one
TopLine(mm) == stripAnsi(LineAt(mm, mm.yOffset))

WrapTop(mm) ==
    /\ mm.wrap
    /\ mm.yOffset < Len(mm.filteredLines)

\* The number of characters of row r of a line of n characters broken
\* every w columns
HardRowLen(n, w, r) == IF n - r * w < w THEN n - r * w ELSE w

\* C18: in wrap mode, on a line that is hard-broken into rows of W
\* columns, resolvePos at (x, r) gives r*W + x when x is inside the text of
\* row r, and r*W + len(row r) when x is at or beyond the end of the row.
C18_HardBreakResolve ==
    (WrapTop(m) /\ TopLine(m) = L_hard /\ m.yOffset \notin m.bookmarks) =>
       \A r \in ProbeY : \A x \in ProbeX :
          r * WrapWidth(m) < Len(L_hard) =>
             /\ resolvePos(m, x, r).line = m.yOffset
             /\ resolvePos(m, x, r).col
                   = r * WrapWidth(m)
                     + (IF x < HardRowLen(Len(L_hard), WrapWidth(m), r) THEN x
                        ELSE HardRowLen(Len(L_hard), WrapWidth(m), r))

\* The place in text of a character that occurs in it once, counted from 0
PlaceOf(text, c) == (CHOOSE i \in 1..Len(text) : text[i] = c) - 1

Once(text, c) == Cardinality({i \in 1..Len(text) : text[i] = c}) = 1

\* C19: in wrap mode, the first character of row r of a line resolves to
\* its place in the original line, whatever white space the wrap consumed
\* at the breaks above it.
C19_NoDriftAcrossBreaks ==
    (WrapTop(m) /\ m.yOffset \notin m.bookmarks) =>
       LET rows == WrapSegments(TopLine(m), WrapWidth(m))
       IN  \A r \in ProbeY :
              (r < Len(rows) /\ rows[r + 1] # <<>>
                 /\ Once(TopLine(m), rows[r + 1][1])) =>
                 /\ resolvePos(m, 0, r).line = m.yOffset
                 /\ resolvePos(m, 0, r).col
                       = PlaceOf(TopLine(m), rows[r + 1][1])

\* C20: in wrap mode, on a bookmarked line, visual column 3 + k of the
\* first row resolves to column k of the line, and the columns of the
\* bookmark prefix resolve to column 0, never to a negative column.
C20_BookmarkPrefixResolve ==
    (WrapTop(m) /\ m.yOffset \in m.bookmarks) =>
       \A x \in ProbeX :
          x < WrapWidth(m) =>
             /\ resolvePos(m, x, 0).col >= 0
             /\ x < 3 => resolvePos(m, x, 0).col = 0
             /\ (x >= 3 /\ x - 3 < Len(TopLine(m))) =>
                   resolvePos(m, x, 0).col = x - 3

\* The lines that pass the three filter stages, as the fold stage reads them
Passed(mm) == FilterLines(mm, CompiledRegex(mm), mm.originalLines)

\* Line i of ls starts a maximal run of indented lines
RunStartsAt(ls, i) ==
    /\ IsIndented(ls[i])
    /\ i = 1 \/ ~IsIndented(ls[i - 1])

\* The length of the run of indented lines that starts at line i
RunLen(ls, i) ==
    CHOOSE k \in 1..(Len(ls) - i + 1) :
       /\ \A j \in i..(i + k - 1) : IsIndented(ls[j])
       /\ i + k > Len(ls) \/ ~IsIndented(ls[i + k])

\* What line i of ls contributes to the folded view
FoldedAt(ls, i) ==
    IF ~IsIndented(ls[i]) THEN <<ls[i]>>
    ELSE IF ~RunStartsAt(ls, i) THEN <<>>
    ELSE IF RunLen(ls, i) = 1 THEN <<ls[i]>>
    ELSE <<FoldSummary(RunLen(ls, i))>>

\* C21: with folding on, the view is the sequence of lines that passed the
\* filters with every maximal run of one indented line left as it is, every
\* maximal run of k >= 2 indented lines (a run at the end of the input
\* included) replaced by one summary line stating k, and the lines that are
\* not indented unchanged and in order.
C21_FoldRuns ==
    m.foldStackTraces =>
       /\ m.filteredLines
             = Flatten([i \in 1..Len(Passed(m)) |-> FoldedAt(Passed(m), i)])
       /\ \A i \in 1..Len(Passed(m)) :
             (RunStartsAt(Passed(m), i) /\ RunLen(Passed(m), i) >= 2) =>
                Contains(FoldSummary(RunLen(Passed(m), i)),
                         <<" ">> \o Itoa(RunLen(Passed(m), i)) \o <<" ">>)

\* Folding is on and applyFilters has run over a store whose two indented
\* lines the level filter made adjacent: a run of two at the end of the
\* input, folded to one summary line
C21_Witness ==
    /\ m.foldStackTraces
    /\ hist.fast = 0
    /\ ~m.showError
    /\ m.originalLines = <<L_ind, L_error, L_tab>>
    /\ m.filteredLines = <<FoldSummary(2)>>

\* The levels whose visibility flag is off
HiddenMarkers(mm) ==
    (IF mm.showError THEN {} ELSE {Str_ERROR})
    \cup (IF mm.showWarn THEN {} ELSE {Str_WARN})
    \cup (IF mm.showInfo THEN {} ELSE {Str_INFO})
    \cup (IF mm.showDebug THEN {} ELSE {Str_DEBUG})

AllMarkers == {Str_ERROR, Str_WARN, Str_INFO, Str_DEBUG}

\* No date bound, no text pattern, no folding: only the level stage drops
LevelStageOnly(mm) ==
    /\ mm.filterText = <<>>
    /\ mm.startDate = NoDate
    /\ mm.endDate = NoDate
    /\ ~mm.foldStackTraces

\* C22: the level stage drops a line exactly when the line contains the
\* marker of a level whose visibility flag is off; a line with none of the
\* four markers passes under every combination of the flags.
C22_LevelStage ==
    LevelStageOnly(m) =>
       /\ m.filteredLines
             = SelectSeq(m.originalLines,
                         LAMBDA line :
                            ~\E mk \in HiddenMarkers(m) : Contains(line, mk))
       /\ \A i \in 1..Len(m.originalLines) :
             (\A mk \in AllMarkers : ~Contains(m.originalLines[i], mk)) =>
                \E j \in 1..Len(m.filteredLines) :
                   m.filteredLines[j] = m.originalLines[i]

\* ERROR is shown and INFO is hidden: the line with both markers is
\* dropped, the line with none is kept
C22_Witness ==
    /\ LevelStageOnly(m)
    /\ m.showError /\ ~m.showInfo
    /\ m.originalLines = <<L_two, L_ind>>
    /\ m.filteredLines = <<L_ind>>

\* No level hidden, no text pattern, no folding: only the date stage drops
DateStageOnly(mm) ==
    /\ mm.filterText = <<>>
    /\ mm.showError /\ mm.showWarn /\ mm.showInfo /\ mm.showDebug
    /\ ~mm.foldStackTraces

\* 2023-01-03 00:00:00, the one bound the inputs of DateSpec can set
T_0103 == DateSeconds(D_0103)

\* The time a line of DateSpec is stamped with, as time.Parse reads the
\* text dateRegex finds in it; NoDate when there is no such text or
\* parseDate rejects it
StampOf(line) ==
    IF line = L_date THEN T_0103 - 86400 + 36000
    ELSE IF line = L_at THEN T_0103
    ELSE IF line = L_after THEN T_0103 + 1
    ELSE NoDate

\* C23: the date stage drops a line exactly when its timestamp is found,
\* parses to t, and t is before the start bound or after the end bound; a
\* timestamp equal to a bound is kept; a line with no timestamp, or with a
\* timestamp-shaped text that does not parse, is never dropped.
C23_DateStage ==
    DateStageOnly(m) =>
       /\ \A i \in 1..Len(m.originalLines) :
             extractDate(m.originalLines[i]) = StampOf(m.originalLines[i])
       /\ m.filteredLines
             = SelectSeq(m.originalLines,
                         LAMBDA line :
                            \/ StampOf(line) = NoDate
                            \/ /\ m.startDate # NoDate => StampOf(line) >= m.startDate
                               /\ m.endDate # NoDate => StampOf(line) <= m.endDate)

\* Both bounds are 2023-01-03 00:00:00: the line stamped with the bound is
\* kept, the line stamped the day before is dropped
C23_Witness ==
    /\ DateStageOnly(m)
    /\ m.inputMode = ModeNormal
    /\ m.startDate = T_0103 /\ m.endDate = T_0103
    /\ m.originalLines = <<L_date, L_at>>
    /\ m.filteredLines = <<L_at>>

\* No level hidden, no date bound, no folding: only the text stage drops
TextStageOnly(mm) ==
    /\ mm.startDate = NoDate
    /\ mm.endDate = NoDate
    /\ mm.showError /\ mm.showWarn /\ mm.showInfo /\ mm.showDebug
    /\ ~mm.foldStackTraces

\* line holds pattern at some place, letters compared without their case
HoldsIgnoringCase(line, pattern) ==
    \E i \in 0..(Len(line) - Len(pattern)) :
       \A k \in 1..Len(pattern) :
          LowerChar(line[i + k]) = LowerChar(pattern[k])

\* C24: with a pattern and regex mode off a line passes the text stage
\* exactly when it holds the pattern as a substring compared without case;
\* with regex mode on and a pattern that compiles, exactly when the
\* compiled pattern matches it; with no pattern every line passes.
C24_TextStage ==
    TextStageOnly(m) =>
       IF m.filterText = <<>> THEN m.filteredLines = m.originalLines
       ELSE IF ~m.regexMode
       THEN m.filteredLines
              = SelectSeq(m.originalLines,
                          LAMBDA line : HoldsIgnoringCase(line, m.filterText))
       ELSE CompileRegex(m.filterText) # NoRegex =>
               m.filteredLines
                 = SelectSeq(m.originalLines,
                             LAMBDA line :
                                /\ MatchString(CompileRegex(m.filterText), line)
                                /\ Contains(line, m.filterText))

\* The pattern "at" with regex mode off keeps the line that holds "AT" and
\* drops the line that holds neither
C24_Witness ==
    /\ TextStageOnly(m)
    /\ ~m.regexMode
    /\ m.filterText = <<"a", "t">>
    /\ m.originalLines = <<L_upper, L_error>>
    /\ m.filteredLines = <<L_upper>>

\* C25: applyFilters called twice in a row on the same raw store and the
\* same filter settings gives the same filtered view both times, whatever
\* resetView is in either call; the second call changes nothing in it.
C25_ApplyIdempotent ==
    \A first, second \in BOOLEAN :
       /\ applyFilters(applyFilters(m, first), second).filteredLines
             = applyFilters(m, first).filteredLines
       /\ applyFilters(applyFilters(m, first), second).originalLines
             = m.originalLines

\* applyFilters has run with folding on and ERROR hidden, and its view is
\* not the raw store; a further call leaves the view as it is
C25_Witness ==
    /\ m.foldStackTraces
    /\ ~m.showError
    /\ m.originalLines = <<L_error, L_ind, L_tab>>
    /\ m.filteredLines # m.originalLines
    /\ m.filteredLines # <<>>
    /\ applyFilters(m, TRUE).filteredLines = m.filteredLines

\* The lines of the filtered view from offset up to, not including,
\* offset + height, as far as the view reaches
Window(lines, offset, height) ==
    LET hi == IF offset + height > Len(lines) THEN Len(lines)
              ELSE offset + height
    IN  IF offset >= Len(lines) \/ hi <= offset THEN <<>>
        ELSE [i \in 1..(hi - offset) |-> lines[offset + i]]

\* C26: for every filtered view, scroll offset and height, the lines View
\* takes as visible are the lines offset .. min(offset + height, length) - 1
\* of the filtered view, in order, and none when the offset is at or past
\* the end.
C26_VisibleWindow ==
    (m.ready /\ ~m.showHelp) =>
       /\ ~ViewPanics(m)
       /\ VisibleLines(m) = Window(m.filteredLines, m.yOffset, m.height)
       /\ ~hist.crashed

\* C27: when follow mode is on and Update is handed a stream batch or a
\* file delta of at least one line, the model it returns is at the bottom,
\* yOffset = max(0, len(filteredLines) - viewport height), and follow mode
\* is still on.
C27_FollowScrollsToBottom ==
    [][\A lines \in ScrollBatches :
          (/\ m.following
           /\ \/ m' = Stored(Update(m, LogChunkMsg(lines, FALSE)))
              \/ m' = Stored(Update(m, FileChangeOf(m, JoinLines(lines)))))
             => /\ m'.yOffset = MaxOffset(m')
                /\ m'.following]_vars

\* Follow mode is on, a batch has just been appended, and the view has
\* moved down to the bottom
C27_Witness ==
    /\ m.following
    /\ m.ready
    /\ hist.fast > 0
    /\ Len(m.filteredLines) > m.height
    /\ m.yOffset = Len(m.filteredLines) - m.height
    /\ m.yOffset > 0

\* The index, from 0, of the first line of the view stamped target or
\* later; -1 when there is none
FirstNotBefore(mm, target) ==
    IF \E i \in 1..Len(mm.filteredLines) :
          /\ extractDate(mm.filteredLines[i]) # NoDate
          /\ extractDate(mm.filteredLines[i]) >= target
    THEN (CHOOSE i \in 1..Len(mm.filteredLines) :
             /\ extractDate(mm.filteredLines[i]) # NoDate
             /\ extractDate(mm.filteredLines[i]) >= target
             /\ \A j \in 1..(i - 1) :
                   \/ extractDate(mm.filteredLines[j]) = NoDate
                   \/ extractDate(mm.filteredLines[j]) < target) - 1
    ELSE -1

\* C28: after a timestamp that parses to T is entered in jump-to-time mode
\* and some line of the view is stamped T or later, the scroll offset the
\* next render uses is the index of the first such line, or the largest
\* offset when that is smaller.
C28_JumpToTime ==
    [][\A val \in InputValues(ModeJumpTime) :
          (/\ m.inputMode = ModeJumpTime
           /\ parseDate(val) # NoDate
           /\ FirstNotBefore(m, parseDate(val)) # -1
           /\ m' = Stored(Update(m, KeyMsg("enter", val))))
             => m'.yOffset
                  = (IF FirstNotBefore(m, parseDate(val)) > MaxOffset(m')
                     THEN MaxOffset(m')
                     ELSE FirstNotBefore(m, parseDate(val)))]_vars

\* C29: Esc in normal mode with a selection clears the selection and
\* nothing else: the filter settings, the filtered view, the bookmarks, the
\* scroll offset and the layout cache are as before.  Esc with no selection
\* clears the text pattern and both date bounds and recomputes the view.
C29_EscClearsSelectionOnly ==
    [][(/\ m.inputMode = ModeNormal
        /\ ~m.showHelp
        /\ m' = Stored(Update(m, KeyMsg("esc", <<>>))))
          => IF m.selectionStart # NoPoint
             THEN m' = [m EXCEPT !.selectionStart = NoPoint,
                                 !.selectionEnd = NoPoint]
             ELSE /\ m'.filterText = <<>>
                  /\ m'.startDate = NoDate
                  /\ m'.endDate = NoDate
                  /\ m'.originalLines = m.originalLines
                  /\ m'.filteredLines
                        = FoldStage(m', FilterLines(m', NoRegex, m.originalLines))
                  /\ m'.showError = m.showError /\ m'.showWarn = m.showWarn
                  /\ m'.showInfo = m.showInfo /\ m'.showDebug = m.showDebug
                  /\ m'.regexMode = m.regexMode
                  /\ m'.foldStackTraces = m.foldStackTraces]_vars

\* A press selected a line of the wrapped view and left its rows in the
\* layout cache; Esc has cleared the selection and kept the cache entry,
\* the bookmarks, the pattern and the scroll offset
C29_Witness ==
    /\ m.wrap
    /\ m.selecting
    /\ m.selectionStart = NoPoint
    /\ m.selectionEnd = NoPoint
    /\ m.bookmarks # {}
    /\ m.filterText # <<>>
    /\ m.yOffset > 0
    /\ \E i \in DOMAIN m.layoutCache :
          /\ i < Len(m.filteredLines)
          /\ m.layoutCache[i] = ResolveParts(m, i)
          /\ m.layoutCache[i] # ViewParts(m, i)

\* The models Update returns for the batches of ConsistSpec, as a stream
\* batch and as a file delta
AppendReturns(mm) ==
    {Update(mm, LogChunkMsg(lines, FALSE)) : lines \in ConsistBatches}
    \cup {Update(mm, FileChangeOf(mm, JoinLines(lines))) :
              lines \in ConsistBatches}

\* C30: after every Update the filtered view is what applyFilters gives
\* over the whole raw store under the current filter settings; an append
\* under settings that are not the permissive default runs applyFilters
\* over the whole store, and the fast path is taken only under the
\* permissive default.
C30_ViewConsistent ==
    /\ [](m.filteredLines = applyFilters(m, FALSE).filteredLines)
    /\ [][\A r \in AppendReturns(m) :
             m' = Stored(r) =>
                /\ r.applied <=> ~canFastAppendWithoutRefilter(m)
                /\ ~r.applied =>
                      /\ m.filterText = <<>>
                      /\ m.startDate = NoDate /\ m.endDate = NoDate
                      /\ m.showError /\ m.showWarn
                      /\ m.showInfo /\ m.showDebug
                      /\ ~m.foldStackTraces]_vars

\* In stdin mode with a start date set and folding on, a batch has arrived
\* and applyFilters has run for it: the view is not the raw store, and the
\* view has followed to the bottom
C30_Witness ==
    /\ m.following
    /\ m.startDate # NoDate
    /\ m.foldStackTraces
    /\ hist.fast = 0
    /\ m.yOffset > 0
    /\ m.yOffset = MaxOffset(m)
    /\ Len(m.filteredLines) < Len(m.originalLines)

\* s is a prefix of t
IsPrefix(s, t) == Len(s) <= Len(t) /\ SubSeq(t, 1, Len(s)) = s

\* C31: the raw store only grows at its end: every step leaves the lines it
\* held as a prefix of the lines it holds afterwards; and no line of the
\* filtered view holds a tab character, on the fast path and after
\* applyFilters alike.
C31_AppendOnlyNoTabs ==
    /\ [][IsPrefix(m.originalLines, m'.originalLines)]_vars
    /\ [](\A i \in 1..Len(m.filteredLines) :
             \A k \in 1..Len(m.filteredLines[i]) : m.filteredLines[i][k] # "\t")

\* The program started on stdin with nothing stored; a line with a tab has
\* arrived on the fast path and stands in the view with four spaces for it
C31_Witness ==
    /\ m.streamer
    /\ hist.fast > 0
    /\ Len(m.originalLines) > 1
    /\ m.originalLines[Len(m.originalLines)] = L_tab
    /\ m.filteredLines[Len(m.filteredLines)] = ExpandTabs(L_tab)
    /\ m.filteredLines[Len(m.filteredLines)] # L_tab

\* The keys of the scroll switch (model.go:630-643)
ScrollCommandKeys ==
    {"up", "k", "down", "j", "pgup", "ctrl+b", "pgdown", "ctrl+f", "space",
     "home", "g", "end", "G"}

\* The messages the claim lets end follow mode: "f", a scroll key, the wheel
FollowOffMsgs ==
    {KeyMsg(key, <<>>) : key \in ScrollCommandKeys \cup {"f"}}
    \cup {MouseMsg(ev) : ev \in ScrollWheel}

\* C32: follow mode goes from on to off only in a step that handles "f", or
\* a scroll key or wheel event that leaves the view above the bottom;
\* resizes, arriving lines, filter keys and other keys never end it.
C32_FollowOffOnlyByScroll ==
    [][(m.following /\ ~m'.following) =>
          \E msg \in FollowOffMsgs :
             /\ m' = Stored(Update(m, msg))
             /\ \/ (msg.type = "Key" /\ msg.key = "f")
                \/ m'.yOffset < MaxOffset(m')]_vars

\* The lower and the higher of two points, by line and then by column
LowPoint(a, b) ==
    IF a.Y < b.Y \/ (a.Y = b.Y /\ a.X <= b.X) THEN a ELSE b
HighPoint(a, b) ==
    IF a.Y < b.Y \/ (a.Y = b.Y /\ a.X <= b.X) THEN b ELSE a

\* The characters of line i (from 0) at the columns k (from 0) with
\* lo <= (i, k) <= hi, in order
CoveredCols(runes, i, lo, hi) ==
    {k \in 0..(Len(runes) - 1) :
        /\ i > lo.Y \/ k >= lo.X
        /\ i < hi.Y \/ k <= hi.X}

CoveredText(runes, cols) ==
    [j \in 1..Cardinality(cols) |->
        runes[(CHOOSE k \in cols : \A q \in cols : k <= q) + j]]

\* The text of the closed range from lo to hi: the lines lo.Y..hi.Y that
\* exist, each without its control sequences, joined by newlines
ClosedRange(lines, lo, hi) ==
    Join([n \in 1..((IF hi.Y < Len(lines) THEN hi.Y + 1 ELSE Len(lines)) - lo.Y) |->
             CoveredText(stripAnsi(lines[lo.Y + n]),
                         CoveredCols(stripAnsi(lines[lo.Y + n]),
                                     lo.Y + n - 1, lo, hi))])

\* C33: the text copySelection writes for a selection is the same whichever
\* end was set first; it is the closed range from the lower point to the
\* higher one, the end column included and columns outside a line clamped
\* to the line; after the copy both ends of the selection are nil.
C33_CopyNormalised ==
    [][\A key \in {"y", "ctrl+y"} :
          (/\ m.selectionStart # NoPoint
           /\ m.selectionEnd # NoPoint
           /\ ~m.showHelp
           /\ (key = "y") <=> (m.inputMode = ModeNormal)
           /\ m' = Stored(Update(m, KeyMsg(key, <<>>)))
           /\ hist'.copied = <<m.selectionStart, m.selectionEnd>>)
          => /\ m'.clipboard =
                   ClosedRange(m.filteredLines,
                               LowPoint(m.selectionStart, m.selectionEnd),
                               HighPoint(m.selectionStart, m.selectionEnd))
             /\ SelectionText(m.filteredLines, m.selectionStart, m.selectionEnd)
                   = SelectionText(m.filteredLines, m.selectionEnd,
                                   m.selectionStart)
             /\ m'.selectionStart = NoPoint
             /\ m'.selectionEnd = NoPoint]_vars

\* A selection dragged backwards, from a column beyond the end of the third
\* line to column 2 of the first, has been copied: the clipboard holds the
\* three lines from that column on, and the selection is gone
C33_Witness ==
    /\ hist.copied = <<[X |-> 9, Y |-> 2], [X |-> 2, Y |-> 0]>>
    /\ m.clipboard = SubSeq(L_error, 3, 7) \o <<"\n">> \o stripAnsi(L_ansi)
                        \o <<"\n">> \o L_ind
    /\ m.selectionStart = NoPoint
    /\ m.selectionEnd = NoPoint

\* The LogChunkMsg values a stream wait can return, and the FileChangeMsg
\* values a file wait can return: lines, nothing, an error
StreamMsgs ==
    {LogChunkMsg(lines, FALSE) : lines \in LoopBatches \cup {<<>>}}
    \cup {LogChunkMsg(<<>>, TRUE)}
FileMsgs(mm) ==
    {FileChangeOf(mm, JoinLines(lines)) : lines \in LoopBatches \cup {<<>>}}
    \cup {FileChangeMsg(<<>>, 0, TRUE)}

\* The messages that come from the user
UserMsgs ==
    {KeyMsg(key, val) : key \in LoopKeys, val \in {<<>>, <<"a", "t">>}}
    \cup {MouseMsg(ev) : ev \in ScrollWheel}
    \cup {WindowSizeMsg(sz) : sz \in ScrollSizes}

\* The commands of kind in cmds
WaitsOf(cmds, kind) == Len(SelectSeq(cmds, LAMBDA c : c = kind))

\* C34: in every input mode, and with the help shown or not, Update returns
\* for a LogChunkMsg exactly one WaitForStream and no WaitForFileChange, for
\* a FileChangeMsg exactly one WaitForFileChange and no WaitForStream, and
\* for a message from the user neither: each producer has one wait
\* outstanding, and lines are taken in while the user types.
C34_OneWaitPerMessage ==
    /\ [](m.streamer =>
            \A msg \in StreamMsgs :
               /\ WaitsOf(Update(m, msg).cmds, "WaitForStream") = 1
               /\ WaitsOf(Update(m, msg).cmds, "WaitForFileChange") = 0)
    /\ [](\A msg \in FileMsgs(m) :
               /\ WaitsOf(Update(m, msg).cmds, "WaitForFileChange") = 1
               /\ WaitsOf(Update(m, msg).cmds, "WaitForStream") = 0)
    /\ [](\A msg \in UserMsgs :
               /\ WaitsOf(Update(m, msg).cmds, "WaitForFileChange") = 0
               /\ WaitsOf(Update(m, msg).cmds, "WaitForStream") = 0)
    /\ [][\A lines \in LoopBatches :
             /\ m.inputMode # ModeNormal \/ m.showHelp
             /\ \/ m' = Stored(Update(m, LogChunkMsg(lines, FALSE)))
                \/ m' = Stored(Update(m, FileChangeOf(m, JoinLines(lines))))
             /\ hist'.busy
             => /\ m'.originalLines = m.originalLines \o lines
                /\ m'.inputMode = m.inputMode
                /\ m'.showHelp = m.showHelp]_vars

\* The filter input is open and a batch has just been taken in from the
\* stream
C34_Witness ==
    /\ hist.busy
    /\ m.streamer
    /\ m.inputMode = ModeFilter
    /\ m.originalLines = <<L_ind>>

\* C35: once every delta read so far has been handled, the lines added to
\* the raw store are the newline-split of all the bytes the deltas carried;
\* a line whose bytes came in two deltas is stored as one line.
C35_LinesIntactAcrossDeltas ==
    fs.msgs = <<>> => m.originalLines = hist.init \o FileLines(fs.got)

\* The line and column resolvePos returns in mm at (x, y)
PointAt(mm, x, y) == <<resolvePos(mm, x, y).line, resolvePos(mm, x, y).col>>

\* C36: in wrap mode resolvePos returns the same line and column for every
\* screen coordinate whether the layout cache is empty or holds the rows an
\* earlier resolvePos or an earlier View stored for the same lines.
C36_CacheTransparent ==
    (m.wrap /\ m.ready) =>
       \A x \in ProbeX : \A y \in ProbeY :
          PointAt(m, x, y) = PointAt([m EXCEPT !.layoutCache = EmptyCache], x, y)

\* C37: every bookmark is the index of a line of the filtered view; with an
\* empty view the bookmark set is empty.
C37_BookmarksValid ==
    \A row \in m.bookmarks : 0 <= row /\ row < Len(m.filteredLines)

\* C38: for every window size, heights below header plus footer included,
\* and every scroll offset, the bounds View slices the filtered view with
\* satisfy 0 <= start <= end <= len(filteredLines), and View never panics.
C38_RenderSafe ==
    /\ ~hist.crashed
    /\ (m.ready /\ ~m.showHelp) =>
          /\ 0 <= ViewStart(m)
          /\ ViewStart(m) <= ViewEnd(m)
          /\ ViewEnd(m) <= Len(m.filteredLines)

\* C39: in wrap mode a press of the left button on a viewport row that shows
\* a segment of a line starts a selection whose two ends are what resolvePos
\* gives for the place, also on a row whose number plus the scroll offset is
\* not below the number of lines of the filtered view.
C39_PressSelectsOnWrappedRow ==
    (m.wrap /\ m.ready /\ m.inputMode = ModeNormal) =>
       \A ev \in {e \in PressClicks : e.action = "press"} :
          (/\ ev.Y - headerHeight < m.height
           /\ PointAt(m, ev.X, ev.Y - headerHeight)[1] >= 0
           /\ PointAt(m, ev.X, ev.Y - headerHeight)[1] < Len(m.filteredLines))
          => /\ Update(m, MouseMsg(ev)).selecting
             /\ Update(m, MouseMsg(ev)).selectionStart
                   = [X |-> PointAt(m, ev.X, ev.Y - headerHeight)[2],
                      Y |-> PointAt(m, ev.X, ev.Y - headerHeight)[1]]
             /\ Update(m, MouseMsg(ev)).selectionEnd
                   = Update(m, MouseMsg(ev)).selectionStart

\* The models Update returns for the batches of FrameSpec, as a stream
\* batch and as a file delta
FrameReturns(mm) ==
    {Update(mm, LogChunkMsg(lines, FALSE)) : lines \in FrameBatches}
    \cup {Update(mm, FileChangeOf(mm, JoinLines(lines))) :
              lines \in FrameBatches}

\* The filter settings of a model
FilterSpecOf(mm) ==
    <<mm.showError, mm.showWarn, mm.showInfo, mm.showDebug, mm.filterText,
      mm.regexMode, mm.startDate, mm.endDate, mm.foldStackTraces>>

\* What an append on the fast path leaves as it was, the scroll offset aside
FastAppendFrame(old, new) ==
    /\ IsPrefix(old.originalLines, new.originalLines)
    /\ IsPrefix(old.filteredLines, new.filteredLines)
    /\ Len(new.filteredLines) > Len(old.filteredLines)
    /\ new.bookmarks = old.bookmarks
    /\ new.selectionStart = old.selectionStart
    /\ new.selectionEnd = old.selectionEnd
    /\ new.layoutCache = old.layoutCache
    /\ FilterSpecOf(new) = FilterSpecOf(old)

\* C40 as claimed: an append on the fast path leaves the old view as a
\* prefix of the new one and bookmarks, selection, layout cache and filter
\* settings as they were, and the scroll offset as it was unless follow mode
\* is on.
C40_FastAppendFrame ==
    [][\A r \in FrameReturns(m) :
          (m' = Stored(r) /\ ~r.applied) =>
             /\ FastAppendFrame(m, m')
             /\ ~m.following => m'.yOffset = m.yOffset]_vars

====
